---- MODULE Spec2Model ----
(***************************************************************************)
(* GhostType backend: the per-connection streaming-generation orchestrator *)
(* of src/ghosttype/backend/server.py (the /generate WebSocket endpoint),  *)
(* its worker thread (_run_agent and StreamingCallbackHandler) and the     *)
(* agent handle cache (agent, current_config, current_mode_type).          *)
(*                                                                         *)
(* One connection is modelled.  The client is the environment: a receive   *)
(* of the endpoint takes the oldest payload the client has sent or, when   *)
(* none is waiting, one drawn from a small set that arrives meanwhile.     *)
(* The backend (the Strands agent) is the environment as well: a running   *)
(* worker may invoke the callback, return, raise, or do nothing forever.   *)
(* The ceiling GENERATION_TIMEOUT and the 5 s grace period are modelled by *)
(* their expiry events, which may occur at any moment they can occur.      *)
(***************************************************************************)
EXTENDS Integers, Sequences, FiniteSets, TLC

\* ------------------------------------------------------------------------
\* Bounds of the model
\* ------------------------------------------------------------------------
MaxTurns == 2   \* generation requests accepted on the connection
MaxTokens == 1  \* callback invocations with content made on the connection
MaxCtl == 1     \* inbound payloads of the connection besides accepted requests

VARIABLES
    pc,                 \* position of generate(): "recv", "running", "grace", "closed"
    agent,              \* the bound handle (0 is None), server.py:229
    current_config,     \* None or Some(ModelConfig), server.py:230
    current_mode_type,  \* "None", "chat" or "draft", server.py:231
    cancel_event,       \* threading.Event of the connection, server.py:234
    timed_out,          \* local flag of the turn, server.py:344
    turn,               \* number of generation requests accepted so far
    worker,             \* per turn: the thread running _run_agent
    sent,               \* messages sent on the websocket, in order, since
                        \* generate() last took a payload at the receive of 238
    ncreated,           \* number of calls of create_agent
    ntokens,            \* callback invocations with content made so far, by all workers
    nctl,               \* inbound payloads taken so far, accepted requests aside
    closed_by,          \* why the connection loop ended
    clock,              \* whole seconds since gen_start (323) and since the wait
                        \* of 407 began; only Tick lets time pass
    inbox,              \* payloads the client has sent that no receive has taken yet
    outstanding,        \* token sends scheduled on the loop (129) whose worker has
                        \* stopped waiting for them (135-137)
    call,               \* an application of one of the pure functions of server.py
    conn,               \* which of two connections the variables above describe
    peer,               \* the locals of generate() on the other connection
    hist                \* history of the connection (observations, not program state)

vars == <<pc, agent, current_config, current_mode_type, cancel_event, timed_out,
          turn, worker, sent, ncreated, ntokens, nctl,
          closed_by, clock, inbox, outstanding, call, conn, peer, hist>>

\* ------------------------------------------------------------------------
\* Values
\* ------------------------------------------------------------------------
None == <<>>
Some(x) == <<x>>

Turns == 1..MaxTurns

\* config.py: defaults of the process configuration
config == [model_provider |-> "bedrock",
           model_id       |-> "global.anthropic.claude-opus-4-6-v1",
           aws_profile    |-> "",
           aws_region     |-> "us-west-2"]

\* str.lower() on the provider names and the keywords of failure texts that
\* occur
lower(s) == CASE s = "Bedrock" -> "bedrock"
              [] s = "BEDROCK" -> "bedrock"
              [] s = "Limit" -> "limit"
              [] s = "Credentials" -> "credentials"
              [] s = "Timeout" -> "timeout"
              [] s = "ExpiredToken" -> "expiredtoken"
              [] OTHER -> s

\* dict.get(key, default) on a dict given as a set of <<key, value>> pairs
Get(data, key, default) ==
    IF \E p \in data : p[1] = key
    THEN (CHOOSE p \in data : p[1] = key)[2]
    ELSE default

\* agent.py ModelConfig: the dataclass, compared field by field
ModelConfig(provider, model_id, aws_profile, aws_region) ==
    [provider |-> provider, model_id |-> model_id,
     aws_profile |-> aws_profile, aws_region |-> aws_region]

\* The "config" field of a request: missing or falsy, a dict, or some other
\* truthy JSON value (a string, a number, a list)
RequestConfigs ==
    { [kind |-> "falsy",   data |-> {}],
      [kind |-> "dict",    data |-> {<<"provider", "bedrock">>}],
      [kind |-> "dict",    data |-> {<<"provider", "openai">>}],
      [kind |-> "notdict", data |-> {}] }

\* ModelConfig.from_request raises AttributeError on a truthy non-dict value
from_request_raises(rc) == rc.kind = "notdict"

\* ModelConfig.from_request
from_request(rc) ==
    IF rc.kind = "falsy"
    THEN ModelConfig("", "", "", "")
    ELSE ModelConfig(Get(rc.data, "provider", ""),
                     Get(rc.data, "model_id", ""),
                     Get(rc.data, "aws_profile", ""),
                     Get(rc.data, "aws_region", ""))

effective_provider(mc) ==
    lower(IF mc.provider # "" THEN mc.provider ELSE config.model_provider)
effective_model_id(mc) ==
    IF mc.model_id # "" THEN mc.model_id ELSE config.model_id
effective_aws_profile(mc) ==
    IF mc.aws_profile # "" THEN mc.aws_profile ELSE config.aws_profile
effective_aws_region(mc) ==
    IF mc.aws_region # "" THEN mc.aws_region ELSE config.aws_region

\* The effective (provider, model_id, aws_profile, aws_region) of a ModelConfig
Effective(mc) == <<effective_provider(mc), effective_model_id(mc),
                   effective_aws_profile(mc), effective_aws_region(mc)>>

\* create_model raises ValueError for a provider other than bedrock, and so
\* does create_agent, which calls it first
create_agent_raises(mc) == effective_provider(mc) # "bedrock"

\* Variant of classify_mode_type: the context is not looked at
classify_mode_type_IgnoresContext(mode, context, prompt) ==
    IF mode \in {"rewrite", "fix", "translate"} THEN "draft"
    ELSE "chat"

\* server.py classify_mode_type
classify_mode_type(mode, context, prompt) ==
    IF mode \in {"rewrite", "fix", "translate"} THEN "draft"
    ELSE IF context # "" THEN "draft"
    ELSE "chat"

\* A text as the sequence of its parts; the empty text has none
Text(s) == IF s = "" THEN <<>> ELSE <<s>>

\* Variant of build_message: the templates are chosen by the mode alone
build_message_ModeOnly(prompt, context, mode) ==
    IF mode = "rewrite"
    THEN <<"Rewrite the following text:\n\n">> \o Text(context)
             \o <<"\n\nInstructions: ">> \o Text(prompt)
    ELSE IF mode = "fix"
    THEN <<"Fix grammar and spelling in the following text:\n\n">> \o Text(context)
    ELSE IF mode = "translate"
    THEN <<"Translate the following text. ">> \o Text(prompt)
             \o <<"\n\n">> \o Text(context)
    ELSE IF context # ""
    THEN <<"Context (selected text from user's application):\n\"\"\"\n">>
             \o Text(context) \o <<"\n\"\"\"\n\n", "Task: ">> \o Text(prompt)
    ELSE Text(prompt)

\* server.py build_message: the f-strings, as the sequence of their literal
\* parts and of the texts put between them
build_message(prompt, context, mode) ==
    IF mode = "rewrite" /\ context # ""
    THEN <<"Rewrite the following text:\n\n">> \o Text(context)
             \o <<"\n\nInstructions: ">> \o Text(prompt)
    ELSE IF mode = "fix" /\ context # ""
    THEN <<"Fix grammar and spelling in the following text:\n\n">> \o Text(context)
    ELSE IF mode = "translate" /\ context # ""
    THEN <<"Translate the following text. ">> \o Text(prompt)
             \o <<"\n\n">> \o Text(context)
    ELSE IF context # ""
    THEN <<"Context (selected text from user's application):\n\"\"\"\n">>
             \o Text(context) \o <<"\n\"\"\"\n\n", "Task: ">> \o Text(prompt)
    ELSE Text(prompt)

\* A parsed generation request (a JSON object without a control "type");
\* the mode_type "None" is that of a request without the field, for which
\* request.get("mode_type") is None, and "outline" is a value the classifier
\* never returns
Requests ==
    [prompt    : {"", "p"},
     context   : {"", "c"},
     mode      : {"generate", "fix"},
     mode_type : {"None", "", "outline"},
     config    : RequestConfigs]

\* Failures the backend can raise inside the worker: the kind of the exception
\* and the keywords its text contains
BackendFailures ==
    { [etype |-> "RuntimeError", msg |-> {}],
      [etype |-> "TimeoutError", msg |-> {}] }

CancellationError == [etype |-> "CancellationError", msg |-> {}]
NoExc == [etype |-> "", msg |-> {}]

\* The text of a failure, str(e), is given by the set of the keywords it
\* contains; msg.lower() contains their lower-case forms
Lowered(msg) == { lower(w) : w \in msg }

\* Variant of friendly_error: the timeout rule is tried first
friendly_error_TimeoutFirst(e) ==
    IF "timeout" \in Lowered(e.msg)
    THEN <<"Request timed out. The model may be overloaded - try again.">>
    ELSE IF "rate" \in Lowered(e.msg) /\ "limit" \in Lowered(e.msg)
    THEN <<"Rate limit exceeded. Please wait a moment and try again.">>
    ELSE IF "authentication" \in Lowered(e.msg) \/ "credentials" \in Lowered(e.msg)
    THEN <<"Authentication error. Check your AWS credentials.">>
    ELSE IF "ExpiredTokenException" \in e.msg \/ "ExpiredToken" \in e.msg
    THEN <<"AWS credentials expired. Run tokenmaster to refresh.">>
    ELSE <<e.etype, ": ", e.msg>>

\* server.py _friendly_error
friendly_error(e) ==
    IF "rate" \in Lowered(e.msg) /\ "limit" \in Lowered(e.msg)
    THEN <<"Rate limit exceeded. Please wait a moment and try again.">>
    ELSE IF "authentication" \in Lowered(e.msg) \/ "credentials" \in Lowered(e.msg)
    THEN <<"Authentication error. Check your AWS credentials.">>
    ELSE IF "timeout" \in Lowered(e.msg)
    THEN <<"Request timed out. The model may be overloaded - try again.">>
    ELSE IF "ExpiredTokenException" \in e.msg \/ "ExpiredToken" \in e.msg
    THEN <<"AWS credentials expired. Run tokenmaster to refresh.">>
    ELSE <<e.etype, ": ", e.msg>>

\* An outbound message; t is the turn whose worker or orchestrator sent it
\* (0 for a reply sent between turns)
Msg(type, t, content) == [type |-> type, turn |-> t, content |-> content]

TimeoutText == <<"Generation timed out. Try a shorter conversation or start a new one.">>

Terminal == {"done", "error", "cancelled"}

\* No pure function has been applied
NoCall == [fn |-> "none", prompt |-> "", context |-> "", mode |-> "", ret |-> <<>>]

\* 323: gen_start = time.monotonic(); outside a turn the clock rests here
ClockZero == [elapsed |-> 0, grace |-> 0]

NoWorker == [st |-> "none", agent |-> 0, token_count |-> 0, exc |-> NoExc,
             data |-> "", result |-> <<>>]

\* A thread whose agent_task has been awaited: nothing of it is left
Joined == [NoWorker EXCEPT !.st = "joined"]

\* A thread that ended with nobody awaiting its agent_task
Gone == [NoWorker EXCEPT !.st = "gone"]

\* Is generate() still going to look at the agent_task of turn t?
Awaited(t) == t = turn /\ pc \in {"running", "grace"}

\* The thread of turn t ends, returning or raising exc; the outcome is kept
\* for the orchestrator only if it awaits it
Ends(t, st, exc) ==
    IF Awaited(t) THEN [worker[t] EXCEPT !.st = st, !.exc = exc] ELSE Gone

\* agent_task.done(): the thread of turn t has returned or raised
Finished(t) == worker[t].st \in {"returned", "raised"}

\* 224-234: the locals of generate() on a connection that has just been
\* accepted, with what the model keeps per connection beside them
Accepted ==
    [pc |-> "recv", agent |-> 0, current_config |-> None,
     current_mode_type |-> "None", cancel_event |-> FALSE, timed_out |-> FALSE,
     turn |-> 0, worker |-> [t \in Turns |-> NoWorker], sent |-> <<>>,
     closed_by |-> "open", clock |-> ClockZero, inbox |-> <<>>,
     outstanding |-> <<>>,
     hist |-> [last |-> "none", cancel_mid |-> FALSE, idle_cancel |-> "no",
               after_cancelled |-> FALSE]]

Init ==
    /\ pc = "recv"
    /\ agent = 0
    /\ current_config = None
    /\ current_mode_type = "None"
    /\ cancel_event = FALSE
    /\ timed_out = FALSE
    /\ turn = 0
    /\ worker = [t \in Turns |-> NoWorker]
    /\ sent = <<>>
    /\ ncreated = 0
    /\ nctl = 0
    /\ ntokens = 0
    /\ closed_by = "open"
    /\ clock = ClockZero
    /\ inbox = <<>>
    /\ outstanding = <<>>
    /\ call = NoCall
    /\ conn = 1
    /\ peer = Accepted
    /\ hist = [last |-> "none", cancel_mid |-> FALSE, idle_cancel |-> "no",
               after_cancelled |-> FALSE]

\* ------------------------------------------------------------------------
\* Connection loop, between turns (server.py:237-277)
\* ------------------------------------------------------------------------
\* The history after a payload of the given kind was taken:
\*   last        the kind of the payload generate() took last
\*   cancel_mid  a cancel arrived in this turn while its worker was executing
\*   idle_cancel a cancel arrived between turns: "pending" until the next
\*               request is accepted, "turn" during the turn that follows
\*   after_cancelled  the request of this turn was the first payload taken
\*               after the previous turn had ended as cancelled
Saw(kind) == [hist EXCEPT !.last = kind]

\* The orchestrator's locals and the workers are untouched
OuterFrame == UNCHANGED <<timed_out, turn, worker, ncreated, ntokens, clock,
                          outstanding, call, conn, peer>>

\* websocket.receive_text returns a payload of one of the given kinds: the
\* oldest one the client has sent and no receive has taken or, when there is
\* none, one that arrives while the receive is pending
Recv(kinds) ==
    /\ inbox # <<>> => Head(inbox).kind \in kinds
    /\ inbox' = IF inbox = <<>> THEN inbox ELSE Tail(inbox)

\* websocket.receive_text raises WebSocketDisconnect: the client has gone and
\* nothing it sent is left to read
RecvClosed ==
    /\ inbox = <<>>
    /\ UNCHANGED inbox

\* Variant of RecvInvalidJSON: the decode error is not caught at 243 and
\* ends generate() through the handler of 465
RecvInvalidJSON_Raises ==
    /\ pc = "recv" /\ nctl < MaxCtl
    /\ Recv({"invalid_json"})
    /\ pc' = "closed"
    /\ closed_by' = "error"
    /\ sent' = <<>>
    /\ nctl' = nctl + 1
    /\ hist' = Saw("invalid_json")
    /\ UNCHANGED <<agent, current_config, current_mode_type, cancel_event>>
    /\ OuterFrame

\* json.loads raises JSONDecodeError: one error reply, continue (241-249)
RecvInvalidJSON ==
    /\ pc = "recv" /\ nctl < MaxCtl
    /\ Recv({"invalid_json"})
    /\ sent' = <<Msg("error", 0, <<"Invalid JSON">>)>>
    /\ nctl' = nctl + 1
    /\ hist' = Saw("invalid_json")
    /\ UNCHANGED <<pc, agent, current_config, current_mode_type, cancel_event, closed_by>>
    /\ OuterFrame

\* The payload is JSON but not an object: request.get raises AttributeError,
\* which only the handler at 465 catches, and generate() returns
RecvNonObject ==
    /\ pc = "recv" /\ nctl < MaxCtl
    /\ Recv({"non_object"})
    /\ pc' = "closed"
    /\ closed_by' = "error"
    /\ sent' = <<>>
    /\ nctl' = nctl + 1
    /\ hist' = Saw("non_object")
    /\ UNCHANGED <<agent, current_config, current_mode_type, cancel_event>>
    /\ OuterFrame

\* {"type": "cancel"} between turns (251-255)
RecvCancel ==
    /\ pc = "recv" /\ nctl < MaxCtl
    /\ Recv({"cancel"})
    /\ cancel_event' = TRUE
    /\ nctl' = nctl + 1
    /\ sent' = <<>>
    /\ hist' = [Saw("cancel") EXCEPT !.idle_cancel = "pending"]
    /\ UNCHANGED <<pc, agent, current_config, current_mode_type, closed_by>>
    /\ OuterFrame

\* Variant of RecvNewConversation: the binding is reset without a reply
RecvNewConversation_NoReply ==
    /\ pc = "recv" /\ nctl < MaxCtl
    /\ Recv({"new_conversation"})
    /\ agent' = 0
    /\ current_config' = None
    /\ current_mode_type' = "None"
    /\ sent' = <<>>
    /\ nctl' = nctl + 1
    /\ hist' = Saw("new_conversation")
    /\ UNCHANGED <<pc, cancel_event, closed_by>>
    /\ OuterFrame

\* Variant of RecvNewConversation: the handle is dropped, the bound config
\* and mode type are kept
RecvNewConversation_DropsHandleOnly ==
    /\ pc = "recv" /\ nctl < MaxCtl
    /\ Recv({"new_conversation"})
    /\ agent' = 0
    /\ sent' = <<Msg("conversation_reset", 0, <<>>)>>
    /\ nctl' = nctl + 1
    /\ hist' = Saw("new_conversation")
    /\ UNCHANGED <<pc, current_config, current_mode_type, cancel_event, closed_by>>
    /\ OuterFrame

\* {"type": "new_conversation"} between turns (257-264)
RecvNewConversation ==
    /\ pc = "recv" /\ nctl < MaxCtl
    /\ Recv({"new_conversation"})
    /\ agent' = 0
    /\ current_config' = None
    /\ current_mode_type' = "None"
    /\ sent' = <<Msg("conversation_reset", 0, <<>>)>>
    /\ nctl' = nctl + 1
    /\ hist' = Saw("new_conversation")
    /\ UNCHANGED <<pc, cancel_event, closed_by>>
    /\ OuterFrame

\* The validation of 272: an empty prompt with mode "generate"
EmptyPrompt(req) == req.prompt = "" /\ req.mode = "generate"

\* websocket.receive_text returns the generation request req
RecvRequest(req) ==
    /\ Recv({"generate"})
    /\ inbox # <<>> => Head(inbox).req = req

\* Variant of RecvEmptyPrompt: the clear of 280 runs before the validation
RecvEmptyPrompt_ClearsFirst(req) ==
    /\ pc = "recv" /\ nctl < MaxCtl
    /\ EmptyPrompt(req)
    /\ RecvRequest(req)
    /\ cancel_event' = FALSE
    /\ sent' = <<Msg("error", 0, <<"Empty prompt">>)>>
    /\ nctl' = nctl + 1
    /\ hist' = Saw("empty_prompt")
    /\ UNCHANGED <<pc, agent, current_config, current_mode_type, closed_by>>
    /\ OuterFrame

\* A generation request that fails the validation (266-277)
RecvEmptyPrompt(req) ==
    /\ pc = "recv" /\ nctl < MaxCtl
    /\ EmptyPrompt(req)
    /\ RecvRequest(req)
    /\ sent' = <<Msg("error", 0, <<"Empty prompt">>)>>
    /\ nctl' = nctl + 1
    /\ hist' = Saw("empty_prompt")
    /\ UNCHANGED <<pc, agent, current_config, current_mode_type, cancel_event, closed_by>>
    /\ OuterFrame

\* websocket.receive_text raises WebSocketDisconnect between turns (238, 463)
RecvDisconnect ==
    /\ pc = "recv"
    /\ RecvClosed
    /\ pc' = "closed"
    /\ closed_by' = "disconnect"
    /\ sent' = <<>>
    /\ hist' = Saw("disconnect")
    /\ UNCHANGED <<agent, current_config, current_mode_type, cancel_event, nctl>>
    /\ OuterFrame

\* Variant of clear: set() is called in place of clear()
clear_Set == TRUE

\* ------------------------------------------------------------------------
\* Start of a turn (server.py:279-335); no await between 280 and 357
\* ------------------------------------------------------------------------
\* Variant of clear: the event is left as it was
clear_Skipped == cancel_event

\* 280: threading.Event.clear() leaves the event unset
clear == FALSE

\* Variant of effective_mode_type: the classifier's result wins
effective_mode_type_ClassifierFirst(req) ==
    classify_mode_type(req.mode, req.context, req.prompt)

\* 287: the client's mode_type if truthy, else the classifier's
effective_mode_type(req) ==
    IF req.mode_type \notin {"None", ""} THEN req.mode_type
    ELSE classify_mode_type(req.mode, req.context, req.prompt)

\* Variant of NeedsRebuild: the mode type is not compared
NeedsRebuild_IgnoresModeType(mc, mt) ==
    agent = 0 \/ Some(mc) # current_config

\* 306: the condition under which the handle is built anew
NeedsRebuild(mc, mt) ==
    agent = 0 \/ Some(mc) # current_config \/ mt # current_mode_type

RecvGenerate(req) ==
    /\ pc = "recv" /\ turn < MaxTurns
    /\ ~EmptyPrompt(req)
    /\ RecvRequest(req)
    /\ turn' = turn + 1
    /\ cancel_event' = clear
    /\ timed_out' = FALSE
    /\ hist' = [last        |-> "generate",
                cancel_mid  |-> FALSE,
                idle_cancel |-> IF hist.idle_cancel = "pending" THEN "turn" ELSE "no",
                after_cancelled |-> sent # <<>> /\
                                    sent[Len(sent)] = Msg("cancelled", turn, <<>>)]
    /\ sent' = <<>>
    /\ clock' = ClockZero
    /\ UNCHANGED <<nctl, ntokens, outstanding, call, conn, peer>>
    /\ IF from_request_raises(req.config)
       THEN \* 284 raises outside the try of 345: generate() returns at 465
            /\ pc' = "closed" /\ closed_by' = "error"
            /\ UNCHANGED <<agent, current_config, current_mode_type,
                           worker, ncreated>>
       ELSE LET mc == from_request(req.config)
                mt == effective_mode_type(req)
            IN  IF NeedsRebuild(mc, mt)
                THEN /\ ncreated' = ncreated + 1
                     /\ IF create_agent_raises(mc)
                        THEN \* 311 raises outside the try of 345
                             /\ pc' = "closed" /\ closed_by' = "error"
                             /\ UNCHANGED <<agent, current_config,
                                            current_mode_type, worker>>
                        ELSE /\ agent' = ncreated + 1
                             /\ current_config' = Some(mc)
                             /\ current_mode_type' = mt
                             /\ worker' = [worker EXCEPT ![turn + 1] =
                                    [NoWorker EXCEPT !.st = "scheduled",
                                                     !.agent = ncreated + 1]]
                             /\ pc' = "running"
                             /\ UNCHANGED closed_by
                ELSE /\ worker' = [worker EXCEPT ![turn + 1] =
                            [NoWorker EXCEPT !.st = "scheduled",
                                             !.agent = agent]]
                     /\ pc' = "running"
                     /\ UNCHANGED <<agent, current_config, current_mode_type,
                                    ncreated, closed_by>>

\* ------------------------------------------------------------------------
\* The worker thread of turn t: _run_agent (469-479) and the callback handler
\* StreamingCallbackHandler.__call__ (102-125) invoked by the backend
\* ------------------------------------------------------------------------
WorkerFrame == UNCHANGED <<pc, agent, current_config, current_mode_type, cancel_event,
                           timed_out, turn, ncreated, nctl,
                           closed_by, clock, inbox, call, conn, peer, hist>>

\* Variant of run_agent: the backend is called without the check of 476
run_agent_NoCheck(t) ==
    /\ worker[t].st = "scheduled"
    /\ worker' = [worker EXCEPT ![t].st = "running"]
    /\ UNCHANGED sent
    /\ UNCHANGED ntokens
    /\ UNCHANGED outstanding
    /\ WorkerFrame

\* _run_agent: the check of 476 when the pool thread picks the job up
run_agent(t) ==
    /\ worker[t].st = "scheduled"
    /\ worker' = [worker EXCEPT ![t] =
           IF cancel_event
           THEN Ends(t, "raised", CancellationError)
           ELSE [@ EXCEPT !.st = "running"]]
    /\ UNCHANGED sent
    /\ UNCHANGED ntokens
    /\ UNCHANGED outstanding
    /\ WorkerFrame

\* Variant of Callback: the check of the signal comes after the token work,
\* so that an invocation with content still counts and sends
Callback_ChecksLast(t, data) ==
    /\ worker[t].st = "running"
    /\ data # "" => ntokens < MaxTokens
    /\ ntokens' = IF data # "" THEN ntokens + 1 ELSE ntokens
    /\ worker' = [worker EXCEPT ![t] =
           IF data # ""
           THEN [@ EXCEPT !.st = "sending", !.token_count = @ + 1,
                          !.data = data]
           ELSE IF cancel_event
           THEN Ends(t, "raised", CancellationError)
           ELSE @]
    /\ UNCHANGED sent
    /\ UNCHANGED outstanding
    /\ WorkerFrame

\* Variant of Callback: the counter counts every invocation, with content or
\* without
Callback_CountsEvery(t, data) ==
    /\ worker[t].st = "running"
    /\ (data # "" /\ ~cancel_event) => ntokens < MaxTokens
    /\ ntokens' = IF data # "" /\ ~cancel_event THEN ntokens + 1 ELSE ntokens
    /\ worker' = [worker EXCEPT ![t] =
           IF cancel_event
           THEN Ends(t, "raised", CancellationError)
           ELSE IF data # ""
           THEN [@ EXCEPT !.st = "sending", !.token_count = @ + 1,
                          !.data = data]
           ELSE [@ EXCEPT !.token_count = @ + 1]]
    /\ UNCHANGED sent
    /\ UNCHANGED outstanding
    /\ WorkerFrame

\* Variant of Callback: the handler does not look at the signal
Callback_NoCheck(t, data) ==
    /\ worker[t].st = "running"
    /\ data # "" => ntokens < MaxTokens
    /\ ntokens' = IF data # "" THEN ntokens + 1 ELSE ntokens
    /\ worker' = [worker EXCEPT ![t] =
           IF data # ""
           THEN [@ EXCEPT !.st = "sending", !.token_count = @ + 1,
                          !.data = data]
           ELSE @]
    /\ UNCHANGED sent
    /\ UNCHANGED outstanding
    /\ WorkerFrame

\* __call__ up to the send: the check of 104, then the counter of 117; an
\* invocation without content does nothing after the check
Callback(t, data) ==
    /\ worker[t].st = "running"
    /\ (data # "" /\ ~cancel_event) => ntokens < MaxTokens
    /\ ntokens' = IF data # "" /\ ~cancel_event THEN ntokens + 1 ELSE ntokens
    /\ worker' = [worker EXCEPT ![t] =
           IF cancel_event
           THEN Ends(t, "raised", CancellationError)
           ELSE IF data # ""
           THEN [@ EXCEPT !.st = "sending", !.token_count = @ + 1,
                          !.data = data]
           ELSE @]
    /\ UNCHANGED sent
    /\ UNCHANGED outstanding
    /\ WorkerFrame

\* _send_ws_message (127-137): the token goes out on the connection's
\* websocket; on a closed connection the send fails and is logged
send_ws_message(t) ==
    /\ worker[t].st = "sending"
    /\ outstanding = <<>>
    /\ worker' = [worker EXCEPT ![t].st = "running", ![t].data = ""]
    /\ sent' = IF pc = "closed" THEN sent
               ELSE Append(sent, Msg("token", t, <<worker[t].data>>))
    /\ UNCHANGED outstanding
    /\ UNCHANGED ntokens
    /\ WorkerFrame

\* The text the callback invocations of turn t have carried so far, as the
\* sequence of its chunks
Streamed(t) == [i \in 1..worker[t].token_count |-> "tok"]

\* What str(result) can be when agent(message) returns: the backend decides,
\* the text it streamed or any other text
Results(t) == {Streamed(t), <<"result">>}

\* agent(message) returns its result
BackendReturns(t) ==
    /\ worker[t].st = "running"
    /\ \E r \in Results(t) :
         worker' = [worker EXCEPT ![t] =
             IF Awaited(t)
             THEN [@ EXCEPT !.st = "returned", !.exc = NoExc, !.result = r]
             ELSE Gone]
    /\ UNCHANGED sent
    /\ UNCHANGED ntokens
    /\ UNCHANGED outstanding
    /\ WorkerFrame

\* agent(message) raises a failure of its own
BackendRaises(t, f) ==
    /\ worker[t].st = "running"
    /\ worker' = [worker EXCEPT ![t] = Ends(t, "raised", f)]
    /\ UNCHANGED sent
    /\ UNCHANGED ntokens
    /\ UNCHANGED outstanding
    /\ WorkerFrame

\* ------------------------------------------------------------------------
\* The concurrent listener of a running turn (server.py:346-402)
\* ------------------------------------------------------------------------
InnerFrame == UNCHANGED <<turn, ncreated, ntokens, outstanding, call, conn, peer>>

\* agent_task.cancel(): a job no pool thread has picked up never runs; a
\* thread that runs cannot be stopped
CancelTask(t) ==
    [worker EXCEPT ![t] = IF @.st = "scheduled" THEN Gone ELSE @]

\* 347-354: the ceiling has passed and the worker has not finished
TimeoutExpires ==
    /\ pc = "running" /\ ~Finished(turn)
    /\ UNCHANGED inbox
    /\ cancel_event' = TRUE
    /\ timed_out' = TRUE
    /\ pc' = "grace"
    /\ UNCHANGED <<agent, current_config, current_mode_type, worker, sent, nctl,
                   closed_by, hist>>
    /\ InnerFrame
    /\ clock' = [clock EXCEPT !.grace = 0]

\* Was the worker of the turn started and not yet finished?
MidGeneration == worker[turn].st \in {"running", "sending"}

\* Variant of InnerRecvCancel: no receive is pending while the worker runs,
\* a cancel is read once the worker has finished
InnerRecvCancel_WaitsForWorker ==
    /\ pc = "running" /\ Finished(turn) /\ nctl < MaxCtl
    /\ Recv({"cancel"})
    /\ cancel_event' = TRUE
    /\ nctl' = nctl + 1
    /\ hist' = [Saw("cancel") EXCEPT !.cancel_mid = @ \/ MidGeneration]
    /\ UNCHANGED <<pc, agent, current_config, current_mode_type, timed_out, worker,
                   sent, closed_by>>
    /\ InnerFrame
    /\ UNCHANGED clock

\* 392-394: cancel during generation
InnerRecvCancel ==
    /\ pc = "running" /\ ~Finished(turn) /\ nctl < MaxCtl
    /\ Recv({"cancel"})
    /\ cancel_event' = TRUE
    /\ nctl' = nctl + 1
    /\ hist' = [Saw("cancel") EXCEPT !.cancel_mid = @ \/ MidGeneration]
    /\ UNCHANGED <<pc, agent, current_config, current_mode_type, timed_out, worker,
                   sent, closed_by>>
    /\ InnerFrame
    /\ UNCHANGED clock

\* Variant of InnerRecvNewConversation: the signal is set but the binding
\* is kept
InnerRecvNewConversation_KeepsHandle ==
    /\ pc = "running" /\ ~Finished(turn) /\ nctl < MaxCtl
    /\ Recv({"new_conversation"})
    /\ cancel_event' = TRUE
    /\ nctl' = nctl + 1
    /\ hist' = Saw("new_conversation")
    /\ UNCHANGED <<pc, agent, current_config, current_mode_type, timed_out,
                   worker, sent, closed_by>>
    /\ InnerFrame
    /\ UNCHANGED clock

\* 395-402: new_conversation during generation
InnerRecvNewConversation ==
    /\ pc = "running" /\ ~Finished(turn) /\ nctl < MaxCtl
    /\ Recv({"new_conversation"})
    /\ cancel_event' = TRUE
    /\ agent' = 0
    /\ current_config' = None
    /\ current_mode_type' = "None"
    /\ nctl' = nctl + 1
    /\ hist' = Saw("new_conversation")
    /\ UNCHANGED <<pc, timed_out, worker, sent, closed_by>>
    /\ InnerFrame
    /\ UNCHANGED clock

\* 384-388: an unparsable payload during generation is logged and skipped
InnerRecvInvalidJSON ==
    /\ pc = "running" /\ ~Finished(turn) /\ nctl < MaxCtl
    /\ Recv({"invalid_json"})
    /\ nctl' = nctl + 1
    /\ hist' = Saw("invalid_json")
    /\ UNCHANGED <<pc, agent, current_config, current_mode_type, cancel_event,
                   timed_out, worker, sent, closed_by>>
    /\ InnerFrame
    /\ UNCHANGED clock

\* Variant of InnerRecvOther: any payload that is not a new_conversation is
\* taken for a cancel
InnerRecvOther_SetsSignal ==
    /\ pc = "running" /\ ~Finished(turn) /\ nctl < MaxCtl
    /\ Recv({"other", "generate"})
    /\ cancel_event' = TRUE
    /\ nctl' = nctl + 1
    /\ hist' = Saw("other")
    /\ UNCHANGED <<pc, agent, current_config, current_mode_type,
                   timed_out, worker, sent, closed_by>>
    /\ InnerFrame
    /\ UNCHANGED clock

\* 390-402: an object of any other type (a generation request included)
\* matches neither branch
InnerRecvOther ==
    /\ pc = "running" /\ ~Finished(turn) /\ nctl < MaxCtl
    /\ Recv({"other", "generate"})
    /\ nctl' = nctl + 1
    /\ hist' = Saw("other")
    /\ UNCHANGED <<pc, agent, current_config, current_mode_type, cancel_event,
                   timed_out, worker, sent, closed_by>>
    /\ InnerFrame
    /\ UNCHANGED clock

\* 390: the payload is JSON but not an object: inner_msg.get raises
\* AttributeError inside the try of 345, the handler of 450 sends the error
\* and the loop goes on to the next receive; agent_task is neither awaited
\* nor cancelled
InnerRecvNonObject ==
    /\ pc = "running" /\ ~Finished(turn) /\ nctl < MaxCtl
    /\ Recv({"non_object"})
    /\ sent' = Append(sent, Msg("error", turn,
                   friendly_error([etype |-> "AttributeError", msg |-> {}])))
    /\ pc' = "recv"
    /\ nctl' = nctl + 1
    /\ hist' = Saw("non_object")
    /\ UNCHANGED <<agent, current_config, current_mode_type, cancel_event,
                   timed_out, worker, closed_by>>
    /\ InnerFrame
    /\ clock' = ClockZero

\* Variant of InnerDisconnect: the loop ends without setting the signal
InnerDisconnect_NoSignal ==
    /\ pc = "running" /\ ~Finished(turn)
    /\ RecvClosed
    /\ worker' = CancelTask(turn)
    /\ pc' = "closed"
    /\ closed_by' = "disconnect"
    /\ hist' = Saw("disconnect")
    /\ UNCHANGED <<agent, current_config, current_mode_type, cancel_event,
                   timed_out, sent, nctl>>
    /\ InnerFrame
    /\ clock' = ClockZero

\* 373-379: the client is gone
InnerDisconnect ==
    /\ pc = "running" /\ ~Finished(turn)
    /\ RecvClosed
    /\ cancel_event' = TRUE
    /\ worker' = CancelTask(turn)
    /\ pc' = "closed"
    /\ closed_by' = "disconnect"
    /\ hist' = Saw("disconnect")
    /\ UNCHANGED <<agent, current_config, current_mode_type, timed_out, sent, nctl>>
    /\ InnerFrame
    /\ clock' = ClockZero

\* Variant of Handle: the cancellation handler discards the binding as the
\* timeout handler does
Handle_CancelResets(e) ==
    IF e.etype \in {"CancellationError", "TimeoutError"}
    THEN /\ agent' = 0
         /\ current_config' = None
         /\ current_mode_type' = "None"
         /\ sent' = Append(sent, IF e.etype = "TimeoutError"
                                 THEN Msg("error", turn, TimeoutText)
                                 ELSE Msg("cancelled", turn, <<>>))
    ELSE /\ sent' = Append(sent, Msg("error", turn, friendly_error(e)))
         /\ UNCHANGED <<agent, current_config, current_mode_type>>

\* ------------------------------------------------------------------------
\* The outcome of the turn (server.py:404-461)
\* ------------------------------------------------------------------------
\* Variant of Handle: after the cancellation handler the done of 425 is
\* sent as well
Handle_FallsThrough(e) ==
    IF e.etype = "CancellationError"
    THEN /\ sent' = sent \o <<Msg("cancelled", turn, <<>>),
                              Msg("done", turn, <<"result">>)>>
         /\ UNCHANGED <<agent, current_config, current_mode_type>>
    ELSE IF e.etype = "TimeoutError"
    THEN /\ agent' = 0
         /\ current_config' = None
         /\ current_mode_type' = "None"
         /\ sent' = Append(sent, Msg("error", turn, TimeoutText))
    ELSE /\ sent' = Append(sent, Msg("error", turn, friendly_error(e)))
         /\ UNCHANGED <<agent, current_config, current_mode_type>>

\* Variant of Handle: no handler for CancellationError, which falls to the
\* generic handler of 450
Handle_NoCancelClause(e) ==
    IF e.etype = "TimeoutError"
    THEN /\ agent' = 0
         /\ current_config' = None
         /\ current_mode_type' = "None"
         /\ sent' = Append(sent, Msg("error", turn, TimeoutText))
    ELSE /\ sent' = Append(sent, Msg("error", turn, friendly_error(e)))
         /\ UNCHANGED <<agent, current_config, current_mode_type>>

\* The handlers of 430-461 for the failure e raised at 412, 413 or 415
Handle(e) ==
    IF e.etype = "CancellationError"
    THEN /\ sent' = Append(sent, Msg("cancelled", turn, <<>>))
         /\ UNCHANGED <<agent, current_config, current_mode_type>>
    ELSE IF e.etype = "TimeoutError"
    THEN /\ agent' = 0
         /\ current_config' = None
         /\ current_mode_type' = "None"
         /\ sent' = Append(sent, Msg("error", turn, TimeoutText))
    ELSE /\ sent' = Append(sent, Msg("error", turn, friendly_error(e)))
         /\ UNCHANGED <<agent, current_config, current_mode_type>>

\* Variant of Resolve: a worker that returned while the cancellation signal
\* was set makes the turn end as cancelled
Resolve_SignalWins ==
    IF worker[turn].st = "returned" /\ ~cancel_event
    THEN /\ sent' = Append(sent, Msg("done", turn, worker[turn].result))
         /\ UNCHANGED <<agent, current_config, current_mode_type>>
    ELSE IF worker[turn].st = "returned"
    THEN /\ sent' = Append(sent, Msg("cancelled", turn, <<>>))
         /\ UNCHANGED <<agent, current_config, current_mode_type>>
    ELSE Handle(worker[turn].exc)

\* 413/415-428 and the handlers: the result of a finished agent_task
Resolve ==
    IF worker[turn].st = "returned"
    THEN /\ sent' = Append(sent, Msg("done", turn, worker[turn].result))
         /\ UNCHANGED <<agent, current_config, current_mode_type>>
    ELSE Handle(worker[turn].exc)

\* 346, 415: the loop ends because the worker finished before the ceiling
Collect ==
    /\ pc = "running" /\ Finished(turn)
    /\ Resolve
    /\ pc' = "recv"
    /\ worker' = [worker EXCEPT ![turn] = Joined]
    /\ UNCHANGED <<cancel_event, timed_out, nctl, ntokens, closed_by, inbox, hist>>
    /\ InnerFrame
    /\ clock' = ClockZero

\* 407-413: the worker finished within the grace period
GraceCollect ==
    /\ pc = "grace" /\ Finished(turn)
    /\ Resolve
    /\ pc' = "recv"
    /\ worker' = [worker EXCEPT ![turn] = Joined]
    /\ UNCHANGED <<cancel_event, timed_out, nctl, ntokens, closed_by, inbox, hist>>
    /\ InnerFrame
    /\ clock' = ClockZero

\* Variant of GraceExpires: the timeout error is sent but the binding is kept
GraceExpires_KeepsHandle ==
    /\ pc = "grace" /\ ~Finished(turn)
    /\ worker' = CancelTask(turn)
    /\ sent' = Append(sent, Msg("error", turn, TimeoutText))
    /\ pc' = "recv"
    /\ UNCHANGED <<agent, current_config, current_mode_type>>
    /\ UNCHANGED <<cancel_event, timed_out, nctl, ntokens, closed_by, inbox, hist>>
    /\ InnerFrame
    /\ clock' = ClockZero

\* 410-412: the grace period ran out
GraceExpires ==
    /\ pc = "grace" /\ ~Finished(turn)
    /\ worker' = CancelTask(turn)
    /\ Handle([etype |-> "TimeoutError", msg |-> {}])
    /\ pc' = "recv"
    /\ UNCHANGED <<cancel_event, timed_out, nctl, ntokens, closed_by, inbox, hist>>
    /\ InnerFrame
    /\ clock' = ClockZero

\* ------------------------------------------------------------------------
\* The requests of the orchestrator's specification: one configuration that
\* builds, one that fails to build, one that fails to parse; one mode type
CoreRequests ==
    { req \in Requests :
        /\ req.mode = "generate" /\ req.context = "" /\ req.mode_type = "None"
        /\ req.config.data # {<<"provider", "bedrock">>} }

\* Steps of the worker threads and of the backend inside them
WorkerNext ==
    \/ \E t \in Turns : run_agent(t)
    \/ \E t \in Turns, data \in {"", "tok"} : Callback(t, data)
    \/ \E t \in Turns : send_ws_message(t)
    \/ \E t \in Turns : BackendReturns(t)
    \/ \E t \in Turns, f \in BackendFailures : BackendRaises(t, f)

\* Steps of generate() that do not depend on the content of a request
LoopNext ==
    \/ RecvInvalidJSON
    \/ RecvNonObject
    \/ RecvCancel
    \/ RecvNewConversation
    \/ RecvDisconnect
    \/ TimeoutExpires
    \/ InnerRecvCancel
    \/ InnerRecvNewConversation
    \/ InnerRecvInvalidJSON
    \/ InnerRecvOther
    \/ InnerRecvNonObject
    \/ InnerDisconnect
    \/ Collect
    \/ GraceCollect
    \/ GraceExpires

Next ==
    \/ \E req \in CoreRequests : RecvEmptyPrompt(req)
    \/ \E req \in CoreRequests : RecvGenerate(req)
    \/ LoopNext
    \/ WorkerNext

Spec == Init /\ [][Next]_vars

\* The handle cache under every request: the steps that read or write the
\* binding (agent, current_config, current_mode_type) and the steps a turn
\* needs to begin and to end
CacheNext ==
    \/ \E req \in Requests : RecvEmptyPrompt(req)
    \/ \E req \in Requests : RecvGenerate(req)
    \/ RecvNewConversation
    \/ InnerRecvNewConversation
    \/ TimeoutExpires
    \/ Collect
    \/ GraceCollect
    \/ GraceExpires
    \/ \E t \in Turns : run_agent(t)
    \/ \E t \in Turns : BackendReturns(t)
    \/ \E t \in Turns, f \in BackendFailures : BackendRaises(t, f)

CacheSpec == Init /\ [][CacheNext]_vars

\* ------------------------------------------------------------------------
\* The turn under the clock (server.py:323, 344-361, 404-412): time passes
\* in whole seconds while generate() waits; a wait never outlasts its timeout
\* ------------------------------------------------------------------------
\* 143: the ceiling of one generation, in seconds
GENERATION_TIMEOUT == 120

\* 408: the timeout of the wait for the worker after the ceiling, in seconds
GraceTimeout == 5

\* Variant of remaining: measured from the start of the current wait, not
\* from gen_start
remaining_FromWaitStart == GENERATION_TIMEOUT - clock.grace

\* 347: remaining = GENERATION_TIMEOUT - (time.monotonic() - gen_start)
remaining == GENERATION_TIMEOUT - clock.elapsed

\* One second passes during the wait of 357-361, whose timeout is
\* min(remaining, 1.0), or during the wait of 407-409, whose timeout is 5.0
Tick ==
    /\ pc \in {"running", "grace"}
    /\ pc = "running" => remaining > 0
    /\ pc = "grace" => clock.grace < GraceTimeout
    /\ clock' = [elapsed |-> clock.elapsed + 1,
                 grace   |-> IF pc = "grace" THEN clock.grace + 1 ELSE 0]
    /\ UNCHANGED <<pc, agent, current_config, current_mode_type, cancel_event,
                   timed_out, turn, worker, sent, ncreated, ntokens, nctl,
                   closed_by, inbox, outstanding, call, conn, peer, hist>>

\* 347-354: the loop head finds remaining <= 0
TimedTimeoutExpires ==
    /\ remaining <= 0
    /\ TimeoutExpires

\* 410-412: the wait of 407 timed out
TimedGraceExpires ==
    /\ clock.grace >= GraceTimeout
    /\ GraceExpires

TimedNext ==
    \/ \E req \in CoreRequests : RecvGenerate(req)
    \/ Tick
    \/ TimedTimeoutExpires
    \/ TimedGraceExpires
    \/ Collect
    \/ GraceCollect
    \/ InnerDisconnect
    \/ InnerRecvCancel
    \/ InnerRecvOther
    \/ \E t \in Turns : run_agent(t)
    \/ \E t \in Turns, data \in {"", "tok"} : Callback(t, data)
    \/ \E t \in Turns : send_ws_message(t)
    \/ \E t \in Turns : BackendReturns(t)

TimedSpec == Init /\ [][TimedNext]_vars

\* ------------------------------------------------------------------------
\* The token sends under a slow connection (server.py:127-137): the wait of
\* 135 can run out before the loop has completed the send
\* ------------------------------------------------------------------------
\* 135-137: future.result(timeout=5.0) raises, the failure is logged and the
\* worker goes on; the future is not cancelled, so the send stays scheduled
SendTimesOut(t) ==
    /\ worker[t].st = "sending"
    /\ worker' = [worker EXCEPT ![t].st = "running", ![t].data = ""]
    /\ outstanding' = Append(outstanding, Msg("token", t, <<worker[t].data>>))
    /\ UNCHANGED <<sent, ntokens>>
    /\ WorkerFrame

\* 129-132: the loop completes a send nobody waits for any more; on a closed
\* connection the send fails
DeliverLate ==
    /\ outstanding # <<>>
    /\ sent' = IF pc = "closed" THEN sent ELSE Append(sent, Head(outstanding))
    /\ outstanding' = Tail(outstanding)
    /\ UNCHANGED <<worker, ntokens>>
    /\ WorkerFrame

\* 425-461: the terminal message goes to the connection after the sends that
\* were scheduled before it
CollectInOrder ==
    /\ outstanding = <<>>
    /\ Collect

SendNext ==
    \/ \E req \in CoreRequests : RecvGenerate(req)
    \/ InnerRecvCancel
    \/ CollectInOrder
    \/ DeliverLate
    \/ \E t \in Turns : run_agent(t)
    \/ \E t \in Turns, data \in {"", "tok"} : Callback(t, data)
    \/ \E t \in Turns : send_ws_message(t)
    \/ \E t \in Turns : SendTimesOut(t)
    \/ \E t \in Turns : BackendReturns(t)

SendSpec == Init /\ [][SendNext]_vars

\* ------------------------------------------------------------------------
\* The connection with a client that sends whenever it likes: what it sends
\* waits in the connection until a receive_text of generate() (238, 356)
\* takes it
\* ------------------------------------------------------------------------
\* The request of a payload that is not a generation request
NoReq == [prompt |-> "", context |-> "", mode |-> "", mode_type |-> "None",
          config |-> [kind |-> "falsy", data |-> {}]]

\* What the client sends: the two control messages and a well-formed request
ClientPayloads ==
    { [kind |-> "cancel", req |-> NoReq],
      [kind |-> "new_conversation", req |-> NoReq] }
        \cup { [kind |-> "generate", req |-> r] :
                  r \in { req \in CoreRequests :
                              req.prompt # "" /\ req.config.kind = "falsy" } }

\* A payload on its way: its kind, its request, and the turn whose worker
\* was unfinished when the client sent it (0 when there was none)
Payload(m) ==
    [kind |-> m.kind, req |-> m.req,
     at |-> IF pc = "running" /\ ~Finished(turn) THEN turn ELSE 0]

\* The generation requests waiting in the connection
QueuedRequests == { i \in DOMAIN inbox : inbox[i].kind = "generate" }

\* The client sends a payload; generate() is not involved
ClientSend(m) ==
    /\ pc # "closed"
    /\ Len(inbox) + nctl < MaxCtl
    /\ m.kind = "generate" => Cardinality(QueuedRequests) + turn < MaxTurns
    /\ inbox' = Append(inbox, Payload(m))
    /\ UNCHANGED <<pc, agent, current_config, current_mode_type, cancel_event,
                   timed_out, turn, worker, sent, ncreated, ntokens, nctl,
                   closed_by, clock, outstanding, call, conn, peer, hist>>

InboxNext ==
    \/ \E m \in ClientPayloads : ClientSend(m)
    \/ \E req \in CoreRequests : RecvGenerate(req)
    \/ RecvCancel
    \/ RecvNewConversation
    \/ InnerRecvCancel
    \/ InnerRecvNewConversation
    \/ InnerRecvOther
    \/ TimeoutExpires
    \/ Collect
    \/ GraceCollect
    \/ GraceExpires
    \/ \E t \in Turns : run_agent(t)
    \/ \E t \in Turns, data \in {"", "tok"} : Callback(t, data)
    \/ \E t \in Turns : send_ws_message(t)
    \/ \E t \in Turns : BackendReturns(t)

InboxSpec == Init /\ [][InboxNext]_vars

\* ------------------------------------------------------------------------
\* Two connections (server.py:209-234): every accepted websocket runs its own
\* invocation of generate(), with its own locals agent, current_config,
\* current_mode_type, loop and cancel_event and its own websocket.  The
\* variables describe the connection conn; peer holds the other one, and
\* Switch turns to it.  Common to both are the module and create_agent.
\* ------------------------------------------------------------------------
Connections == {1, 2}

\* The connection that is not c
Other(c) == CHOOSE d \in Connections : d # c

\* What belongs to the invocation of generate() the variables describe
Local ==
    [pc |-> pc, agent |-> agent, current_config |-> current_config,
     current_mode_type |-> current_mode_type, cancel_event |-> cancel_event,
     timed_out |-> timed_out, turn |-> turn, worker |-> worker, sent |-> sent,
     closed_by |-> closed_by, clock |-> clock, inbox |-> inbox,
     outstanding |-> outstanding, hist |-> hist]

\* The locals other than the cancellation signal change places
SwitchRest ==
    /\ conn' = Other(conn)
    /\ pc' = peer.pc
    /\ agent' = peer.agent
    /\ current_config' = peer.current_config
    /\ current_mode_type' = peer.current_mode_type
    /\ timed_out' = peer.timed_out
    /\ turn' = peer.turn
    /\ worker' = peer.worker
    /\ sent' = peer.sent
    /\ closed_by' = peer.closed_by
    /\ clock' = peer.clock
    /\ inbox' = peer.inbox
    /\ outstanding' = peer.outstanding
    /\ hist' = peer.hist
    /\ UNCHANGED <<ncreated, ntokens, nctl, call>>

\* Variant of Switch: cancel_event is one object of the module, the same for
\* every connection
Switch_SharedSignal ==
    /\ SwitchRest
    /\ UNCHANGED cancel_event
    /\ peer' = Local

\* The model turns to the other connection; nothing of the program changes
Switch ==
    /\ SwitchRest
    /\ cancel_event' = peer.cancel_event
    /\ peer' = Local

\* A request is accepted on the connection; the bound on the accepted
\* requests covers both connections.  The workers of this specification
\* make callback invocations without content only.
PairRecvGenerate(req) ==
    /\ turn + peer.turn < MaxTurns
    /\ RecvGenerate(req)

\* The requests of the two-connection specification: well-formed, with the
\* default configuration
PairRequests ==
    { req \in CoreRequests : req.prompt # "" /\ req.config.kind = "falsy" }

PairNext ==
    \/ Switch
    \/ \E req \in PairRequests : PairRecvGenerate(req)
    \/ InnerRecvCancel
    \/ InnerRecvNewConversation
    \/ InnerDisconnect
    \/ TimeoutExpires
    \/ Collect
    \/ GraceCollect
    \/ GraceExpires
    \/ \E t \in Turns : run_agent(t)
    \/ \E t \in Turns : Callback(t, "")
    \/ \E t \in Turns : BackendReturns(t)

PairSpec == Init /\ [][PairNext]_vars

\* ------------------------------------------------------------------------
\* The pure functions of the message building (server.py:149-176), applied
\* to arguments drawn at the start
\* ------------------------------------------------------------------------
\* Modes: the four of the protocol, one in another case, one unknown
Modes == {"generate", "rewrite", "fix", "translate", "Rewrite", "summarize"}

\* Prompts and contexts: empty, and two texts either argument can take
Texts == {"", "p", "c"}

PureInit ==
    /\ pc = "recv"
    /\ agent = 0
    /\ current_config = None
    /\ current_mode_type = "None"
    /\ cancel_event = FALSE
    /\ timed_out = FALSE
    /\ turn = 0
    /\ worker = [t \in Turns |-> NoWorker]
    /\ sent = <<>>
    /\ ncreated = 0
    /\ nctl = 0
    /\ ntokens = 0
    /\ closed_by = "open"
    /\ clock = ClockZero
    /\ inbox = <<>>
    /\ outstanding = <<>>
    /\ conn = 1
    /\ peer = Accepted
    /\ hist = [last |-> "none", cancel_mid |-> FALSE, idle_cancel |-> "no",
               after_cancelled |-> FALSE]
    /\ call \in [fn : {"none"}, prompt : Texts, context : Texts, mode : Modes,
                 ret : {<<>>}]

PureFrame == UNCHANGED <<pc, agent, current_config, current_mode_type, cancel_event,
                         timed_out, turn, worker, sent, ncreated, ntokens, nctl,
                         closed_by, clock, inbox, outstanding, conn, peer, hist>>

\* classify_mode_type is applied to the arguments
Classify ==
    /\ call.fn = "none"
    /\ call' = [call EXCEPT !.fn = "classify_mode_type",
                            !.ret = classify_mode_type(call.mode, call.context,
                                                       call.prompt)]
    /\ PureFrame

\* build_message is applied to the arguments
BuildMessage ==
    /\ call.fn = "none"
    /\ call' = [call EXCEPT !.fn = "build_message",
                            !.ret = build_message(call.prompt, call.context,
                                                  call.mode)]
    /\ PureFrame

PureNext ==
    \/ Classify
    \/ BuildMessage

PureSpec == PureInit /\ [][PureNext]_vars

\* ------------------------------------------------------------------------
\* The classification of failures (server.py:482-497), applied to a failure
\* drawn at the start
\* ------------------------------------------------------------------------
\* Keywords a failure text can contain, in the case they are written in
Words == {"rate", "Limit", "authentication", "Credentials", "Timeout",
          "ExpiredToken", "expiredtoken"}

\* Kinds of failure, type(e).__name__
ETypes == {"RuntimeError", "ValueError"}

ErrorInit ==
    /\ pc = "recv"
    /\ agent = 0
    /\ current_config = None
    /\ current_mode_type = "None"
    /\ cancel_event = FALSE
    /\ timed_out = FALSE
    /\ turn = 0
    /\ worker = [t \in Turns |-> NoWorker]
    /\ sent = <<>>
    /\ ncreated = 0
    /\ nctl = 0
    /\ ntokens = 0
    /\ closed_by = "open"
    /\ clock = ClockZero
    /\ inbox = <<>>
    /\ outstanding = <<>>
    /\ conn = 1
    /\ peer = Accepted
    /\ hist = [last |-> "none", cancel_mid |-> FALSE, idle_cancel |-> "no",
               after_cancelled |-> FALSE]
    /\ call \in [fn : {"none"}, etype : ETypes, msg : SUBSET Words, ret : {<<>>}]

\* _friendly_error is applied to the failure
FriendlyError ==
    /\ call.fn = "none"
    /\ call' = [call EXCEPT !.fn = "_friendly_error",
                            !.ret = friendly_error([etype |-> call.etype,
                                                    msg |-> call.msg])]
    /\ PureFrame

ErrorNext ==
    \/ FriendlyError

ErrorSpec == ErrorInit /\ [][ErrorNext]_vars

\* ------------------------------------------------------------------------
\* The single-shot surfaces: POST /invocations of agentcore/server.py and
\* the entrypoint invoke of agentcore/agentcore_app.py.  Each call handles
\* one parsed request from beginning to end; the backend returns or raises.
\* ------------------------------------------------------------------------
\* agentcore/server.py classify_mode_type
agentcore_classify_mode_type(mode, context, prompt) ==
    IF mode \in {"rewrite", "fix", "translate"} THEN "draft"
    ELSE IF context # "" THEN "draft"
    ELSE "chat"

\* agentcore/server.py build_message
agentcore_build_message(prompt, context, mode) ==
    IF mode = "rewrite" /\ context # ""
    THEN <<"Rewrite the following text:\n\n">> \o Text(context)
             \o <<"\n\nInstructions: ">> \o Text(prompt)
    ELSE IF mode = "fix" /\ context # ""
    THEN <<"Fix grammar and spelling in the following text:\n\n">> \o Text(context)
    ELSE IF mode = "translate" /\ context # ""
    THEN <<"Translate the following text. ">> \o Text(prompt)
             \o <<"\n\n">> \o Text(context)
    ELSE IF context # ""
    THEN <<"Context (selected text from user's application):\n\"\"\"\n">>
             \o Text(context) \o <<"\n\"\"\"\n\n", "Task: ">> \o Text(prompt)
    ELSE Text(prompt)

\* agentcore/server.py _friendly_error
agentcore_friendly_error(e) ==
    IF "rate" \in Lowered(e.msg) /\ "limit" \in Lowered(e.msg)
    THEN <<"Rate limit exceeded. Please wait a moment and try again.">>
    ELSE IF "authentication" \in Lowered(e.msg) \/ "credentials" \in Lowered(e.msg)
    THEN <<"Authentication error. Check your AWS credentials.">>
    ELSE IF "timeout" \in Lowered(e.msg)
    THEN <<"Request timed out. The model may be overloaded - try again.">>
    ELSE IF "ExpiredTokenException" \in e.msg \/ "ExpiredToken" \in e.msg
    THEN <<"AWS credentials expired. Run tokenmaster to refresh.">>
    ELSE <<e.etype, ": ", e.msg>>

\* Variant of app_classify_mode_type: the context is not looked at
app_classify_mode_type_ModeOnly(mode, context) ==
    IF mode \in {"rewrite", "fix", "translate"} THEN "draft"
    ELSE "chat"

\* agentcore_app.py _classify_mode_type
app_classify_mode_type(mode, context) ==
    IF mode \in {"rewrite", "fix", "translate"} THEN "draft"
    ELSE IF context # "" THEN "draft"
    ELSE "chat"

\* agentcore_app.py _build_message
app_build_message(prompt, context, mode) ==
    IF mode = "rewrite" /\ context # ""
    THEN <<"Rewrite the following text:\n\n">> \o Text(context)
             \o <<"\n\nInstructions: ">> \o Text(prompt)
    ELSE IF mode = "fix" /\ context # ""
    THEN <<"Fix grammar and spelling in the following text:\n\n">> \o Text(context)
    ELSE IF mode = "translate" /\ context # ""
    THEN <<"Translate the following text. ">> \o Text(prompt)
             \o <<"\n\n">> \o Text(context)
    ELSE IF context # ""
    THEN <<"Context (selected text from user's application):\n\"\"\"\n">>
             \o Text(context) \o <<"\n\"\"\"\n\n", "Task: ">> \o Text(prompt)
    ELSE Text(prompt)

\* The parsed requests of the single-shot surfaces; the config is absent,
\* not an object, or an object naming a provider create_model refuses
ShotRequests ==
    [prompt    : {"", "p"},
     context   : {"", "c"},
     mode      : Modes \ {"Rewrite"},
     mode_type : {"None", "", "outline"},
     config    : {rc \in RequestConfigs : rc.data = {} \/ create_agent_raises(from_request(rc))}]

\* What agent(user_message) does: it returns, or raises a failure
ShotOutcomes ==
    { [kind |-> "returns", exc |-> NoExc] }
        \cup { [kind |-> "raises", exc |-> f] : f \in BackendFailures }

\* No single-shot call has been made; n counts the calls, mode_type and
\* message are what the call derived, handle the agent it built (0: none)
NoShot == [fn |-> "none", n |-> 0, req |-> NoReq, rejected |-> FALSE,
           mode_type |-> "None", message |-> <<>>, handle |-> 0,
           response |-> [none |-> TRUE]]

ShotInit ==
    /\ pc = "recv"
    /\ agent = 0
    /\ current_config = None
    /\ current_mode_type = "None"
    /\ cancel_event = FALSE
    /\ timed_out = FALSE
    /\ turn = 0
    /\ worker = [t \in Turns |-> NoWorker]
    /\ sent = <<>>
    /\ ncreated = 0
    /\ nctl = 0
    /\ ntokens = 0
    /\ closed_by = "open"
    /\ clock = ClockZero
    /\ inbox = <<>>
    /\ outstanding = <<>>
    /\ conn = 1
    /\ peer = Accepted
    /\ hist = [last |-> "none", cancel_mid |-> FALSE, idle_cancel |-> "no",
               after_cancelled |-> FALSE]
    /\ call = NoShot

\* The streaming endpoint is not involved in a single-shot call
ShotFrame == UNCHANGED <<pc, agent, current_config, current_mode_type, cancel_event,
                         timed_out, turn, worker, sent, ntokens, nctl,
                         closed_by, clock, inbox, outstanding, conn, peer, hist>>

\* The failures a call can end with: those of the backend, and the
\* ValueError of create_model for a provider other than bedrock
ShotFailures == BackendFailures \cup {[etype |-> "ValueError", msg |-> {}]}

\* The end of the try block of both surfaces: the failure the call ends
\* with, NoExc when agent(user_message) returned
ShotException(mc, out) ==
    IF create_agent_raises(mc) THEN [etype |-> "ValueError", msg |-> {}]
    ELSE IF out.kind = "returns" THEN NoExc
    ELSE out.exc

\* agentcore/server.py invocations, for a body that parsed to an object
Invocations(req, out) ==
    /\ call.n < MaxTurns
    /\ ShotFrame
    /\ IF req.prompt = "" /\ req.mode = "generate"
       THEN /\ call' = [NoShot EXCEPT
                   !.fn = "invocations", !.n = call.n + 1, !.req = req,
                   !.rejected = TRUE,
                   !.response = [status |-> "400", type |-> "error",
                                 content |-> <<"Empty prompt">>]]
            /\ UNCHANGED ncreated
       ELSE IF from_request_raises(req.config)
       THEN \* from_request is called before the try: the exception leaves
            \* the handler
            /\ call' = [NoShot EXCEPT
                   !.fn = "invocations", !.n = call.n + 1, !.req = req,
                   !.response = [unhandled |-> "AttributeError"]]
            /\ UNCHANGED ncreated
       ELSE LET mc == from_request(req.config)
                mode_type ==
                    IF req.mode_type \notin {"None", ""} THEN req.mode_type
                    ELSE agentcore_classify_mode_type(req.mode, req.context,
                                                      req.prompt)
                text_message ==
                    agentcore_build_message(req.prompt, req.context, req.mode)
                e == ShotException(mc, out)
            IN  /\ ncreated' = ncreated + 1
                /\ call' = [NoShot EXCEPT
                       !.fn = "invocations", !.n = call.n + 1, !.req = req,
                       !.mode_type = mode_type, !.message = text_message,
                       !.handle = IF create_agent_raises(mc) THEN 0
                                  ELSE ncreated + 1,
                       !.response =
                           IF e = NoExc
                           THEN [status |-> "200", type |-> "done",
                                 content |-> <<"result">>]
                           ELSE [status |-> "500", type |-> "error",
                                 content |-> agentcore_friendly_error(e)]]

\* agentcore_app.py invoke
Invoke(req, out) ==
    /\ call.n < MaxTurns
    /\ ShotFrame
    /\ IF req.prompt = "" /\ req.mode = "generate"
       THEN /\ call' = [NoShot EXCEPT
                   !.fn = "invoke", !.n = call.n + 1, !.req = req,
                   !.rejected = TRUE,
                   !.response = [error |-> <<"Empty prompt">>]]
            /\ UNCHANGED ncreated
       ELSE IF from_request_raises(req.config)
       THEN \* from_request is called before the try: the exception leaves
            \* the entrypoint
            /\ call' = [NoShot EXCEPT
                   !.fn = "invoke", !.n = call.n + 1, !.req = req,
                   !.response = [unhandled |-> "AttributeError"]]
            /\ UNCHANGED ncreated
       ELSE LET mc == from_request(req.config)
                mode_type ==
                    IF req.mode_type \notin {"None", ""} THEN req.mode_type
                    ELSE app_classify_mode_type(req.mode, req.context)
                user_message ==
                    app_build_message(req.prompt, req.context, req.mode)
                e == ShotException(mc, out)
            IN  /\ ncreated' = ncreated + 1
                /\ call' = [NoShot EXCEPT
                       !.fn = "invoke", !.n = call.n + 1, !.req = req,
                       !.mode_type = mode_type, !.message = user_message,
                       !.handle = IF create_agent_raises(mc) THEN 0
                                  ELSE ncreated + 1,
                       !.response =
                           IF e = NoExc
                           THEN [result |-> <<"result">>]
                           ELSE [error |-> e.msg]]

ShotNext ==
    \/ \E req \in ShotRequests, out \in ShotOutcomes : Invocations(req, out)
    \/ \E req \in ShotRequests, out \in ShotOutcomes : Invoke(req, out)

ShotSpec == ShotInit /\ [][ShotNext]_vars

\* ------------------------------------------------------------------------
\* Properties
\* ------------------------------------------------------------------------
Last(s) == s[Len(s)]

\* Positions in sent of the terminal messages of turn t
TerminalsOf(t) == { i \in DOMAIN sent : sent[i].type \in Terminal /\ sent[i].turn = t }

\* A step that takes an inbound payload of the given kind that is not an
\* accepted request
Takes(kind) == hist'.last = kind /\ nctl' = nctl + 1

\* C1: every generation request that passes validation gets a terminal
\* message unless the client disconnects.  Stated on the runs that have
\* ended: when generate() has returned for a reason other than a disconnect
\* while it was processing an accepted request, the terminal message of that
\* request has been sent.
C1_AcceptedTurnGetsTerminal ==
    (pc = "closed" /\ closed_by = "error" /\ hist.last = "generate")
        => TerminalsOf(turn) # {}

\* C2: at most one terminal message (done, error, cancelled) is ever sent
\* for a turn.
C2_AtMostOneTerminal ==
    \A t \in Turns : Cardinality(TerminalsOf(t)) <= 1

\* A turn in which a cancel arrived and the ceiling expired has resolved
C2_Witness ==
    /\ timed_out /\ hist.last = "cancel" /\ pc = "recv"
    /\ Cardinality(TerminalsOf(turn)) = 1

\* C3: a token message is sent only for a turn whose terminal message has
\* not been sent yet: whenever a token goes out, generate() is still
\* awaiting the worker that produced it.
C3_NoTokenAfterTerminal ==
    [][ (Len(sent') = Len(sent) + 1 /\ Last(sent').type = "token")
            => Awaited(Last(sent').turn) ]_vars

NothingFollowsCancelled ==
    \A i, j \in DOMAIN sent :
        (i < j /\ sent[i].type = "cancelled") => sent[j].turn # sent[i].turn

C5_TimeoutAlwaysError ==
    timed_out =>
        \A i \in TerminalsOf(turn) :
            /\ sent[i] = Msg("error", turn, TimeoutText)
            /\ agent = 0

\* The (provider, model_id, aws_profile, aws_region, mode_type) a request
\* takes effect with, and the one the bound handle was built with
RequestTuple(req) ==
    Append(Effective(from_request(req.config)), effective_mode_type(req))
BoundTuple == Append(Effective(current_config[1]), current_mode_type)

\* C6 as claimed: create_agent is called for an accepted request if and
\* only if no handle is bound or the effective tuple of the request differs
\* from the bound one.
C6_RebuildIffEffectiveDiffers ==
    [][ turn' = turn + 1 => \A req \in Requests :
            (RecvGenerate(req) /\ ~from_request_raises(req.config))
                => ( (ncreated' = ncreated + 1)
                       <=> (agent = 0 \/ RequestTuple(req) # BoundTuple) ) ]_vars

\* C6 as amended: create_agent is called for an accepted request whose
\* config parses if and only if no handle is bound or the ModelConfig of the
\* request as supplied, field by field, or its mode type differs from the
\* bound one; otherwise the binding is left as it is and the worker runs the
\* bound handle; a handle that was built is a new one, bound to the request's
\* ModelConfig and mode type.
C6_RebuildIffSuppliedDiffers ==
    [][ turn' = turn + 1 => \A req \in Requests :
            (RecvGenerate(req) /\ ~from_request_raises(req.config))
                => LET differs == \/ agent = 0
                                  \/ from_request(req.config) # current_config[1]
                                  \/ effective_mode_type(req) # current_mode_type
                   IN  /\ (ncreated' = ncreated + 1) <=> differs
                       /\ ~differs => /\ UNCHANGED <<agent, current_config,
                                                     current_mode_type, ncreated>>
                                      /\ worker'[turn'].agent = agent
                       /\ (differs /\ pc' = "running")
                            => /\ agent' \notin {0, agent}
                               /\ current_config' = Some(from_request(req.config))
                               /\ current_mode_type' = effective_mode_type(req)
                               /\ worker'[turn'].agent = agent' ]_vars

\* The second of two requests runs on the handle built for the first
C6_Witness ==
    turn = 2 /\ pc = "running" /\ ncreated = 1 /\ agent = 1 /\ worker[2].agent = 1

C8_InvalidJSONAlwaysAnswered ==
    [][ Takes("invalid_json")
            => /\ sent' # <<>>
               /\ Last(sent').type = "error"
               /\ sent' \in {<<Last(sent')>>, Append(sent, Last(sent'))}
               /\ pc' # "closed" ]_vars

\* C8 as amended: an unparsable payload taken between turns is answered by
\* exactly one error message; one taken during a turn is dropped without a
\* reply; either way the connection stays open and nothing else changes.
C8_InvalidJSON ==
    [][ Takes("invalid_json")
            => /\ pc = "recv" => sent' = <<Msg("error", 0, <<"Invalid JSON">>)>>
               /\ pc = "running" => sent' = sent
               /\ pc \in {"recv", "running"}
               /\ UNCHANGED <<pc, agent, current_config, current_mode_type,
                              cancel_event, turn, worker, closed_by>> ]_vars

\* An unparsable payload was answered between turns
C8_Witness ==
    /\ hist.last = "invalid_json" /\ pc = "recv"
    /\ sent = <<Msg("error", 0, <<"Invalid JSON">>)>>

\* C9: the processing of a generation request never ends the connection
\* loop: when generate() has returned after taking one, a disconnect was
\* the cause.
C9_OnlyDisconnectCloses ==
    (pc = "closed" /\ hist.last = "generate") => closed_by = "disconnect"

\* C10 as claimed: every new_conversation, between turns or during one, is
\* answered by exactly one conversation_reset message.
C10_ResetAlwaysAnswered ==
    [][ Takes("new_conversation")
            => /\ sent' # <<>>
               /\ Last(sent').type = "conversation_reset"
               /\ sent' \in {<<Last(sent')>>, Append(sent, Last(sent'))} ]_vars

\* C10 as amended: a new_conversation taken between turns is answered by
\* exactly one conversation_reset message; one taken during a turn gets no
\* reply and sets the cancellation signal; both discard the binding.
C10_NewConversation ==
    [][ Takes("new_conversation")
            => /\ pc = "recv" => sent' = <<Msg("conversation_reset", 0, <<>>)>>
               /\ pc = "running" => (sent' = sent /\ cancel_event')
               /\ pc \in {"recv", "running"}
               /\ agent' = 0 /\ current_config' = None /\ current_mode_type' = "None"
               /\ UNCHANGED <<pc, turn, worker, closed_by>> ]_vars

\* A new_conversation was answered between turns, after a turn
C10_Witness ==
    /\ hist.last = "new_conversation" /\ pc = "recv" /\ turn >= 1
    /\ sent = <<Msg("conversation_reset", 0, <<>>)>>


\* C11: a new_conversation, between turns or during one, leaves no handle
\* bound; no handle is bound again before the next request is accepted; the
\* worker of that request, whatever its config and mode type, runs a handle
\* that create_agent has just built, and no worker starts without one.  Taken during a turn, it also sets the
\* cancellation signal, the worker goes on, and the turn ends with exactly
\* one terminal message.
C11_FreshHandleAfterReset ==
    [][ /\ Takes("new_conversation")
            => /\ agent' = 0
               /\ pc = "running" => (cancel_event' /\ pc' = "running" /\ worker' = worker)
        /\ (agent = 0 /\ turn' = turn) => agent' = 0
        /\ (agent = 0 /\ turn' = turn + 1)
            => /\ pc' = "running" => /\ ncreated' = ncreated + 1
                                     /\ agent' = ncreated'
                                     /\ worker'[turn'].agent = agent'
               /\ pc' # "running" => (pc' = "closed" /\ worker' = worker)
        /\ (agent = 0 /\ pc \in {"running", "grace"} /\ pc' = "recv")
            => /\ Len(sent') = Len(sent) + 1
               /\ Last(sent').type \in Terminal /\ Last(sent').turn = turn
               /\ TerminalsOf(turn) = {} ]_vars

\* A new_conversation arrived during a turn, which then ended as cancelled
\* with no handle bound
C11_Witness ==
    /\ hist.last = "new_conversation" /\ pc = "recv" /\ agent = 0
    /\ sent # <<>> /\ Last(sent) = Msg("cancelled", turn, <<>>)


\* The turns whose worker thread is executing _run_agent
Executing == { t \in Turns : worker[t].st \in {"running", "sending"} }

\* C12: at most one generation worker of the connection is executing at any
\* time, abandoned workers included.
C12_OneWorkerExecuting ==
    Cardinality(Executing) <= 1


\* C13: when a request is accepted the cancellation signal is unset, whatever
\* was received before, and during a turn the signal becomes set only by a
\* step of that same turn: a cancel or new_conversation taken by its
\* listener, the expiry of its ceiling, or the disconnect that ends it.  So
\* the worker of a turn never observes a cancel taken before its request.
C13_SignalClearedAtTurnStart ==
    [][ /\ turn' = turn + 1 => ~cancel_event'
        /\ (~cancel_event /\ cancel_event' /\ pc # "recv")
            => /\ pc = "running" /\ turn' = turn
               /\ \/ Takes("cancel")
                  \/ Takes("new_conversation")
                  \/ (~timed_out /\ timed_out')
                  \/ (pc' = "closed" /\ closed_by' = "disconnect") ]_vars

\* The worker of the turn that followed a cancel taken between turns is
\* executing and the signal is unset
C13_Witness ==
    /\ hist.idle_cancel = "turn" /\ pc = "running"
    /\ worker[turn].st = "running" /\ ~cancel_event


\* C14: when the worker has raised a failure other than the cancellation
\* failure and the ceiling has not expired, the turn ends with one error
\* message and the binding (handle, config, mode type) is left as it was.
C14_FailureKeepsBinding ==
    [][ ( /\ pc = "running" /\ ~timed_out /\ pc' = "recv"
          /\ worker[turn].st = "raised"
          /\ worker[turn].exc # CancellationError )
            => /\ Len(sent') = Len(sent) + 1
               /\ Last(sent').type = "error" /\ Last(sent').turn = turn
               /\ UNCHANGED <<agent, current_config, current_mode_type>> ]_vars


\* C15: the step that sends cancelled ends the turn and leaves the binding
\* (handle, config, mode type) as it was; a request with the bound config
\* and mode type that is taken next, while a handle is bound, calls no
\* create_agent and starts its worker on the bound handle with the
\* cancellation signal unset.
C15_CancelledKeepsBinding ==
    [][ /\ (Len(sent') = Len(sent) + 1 /\ Last(sent').type = "cancelled")
            => /\ pc' = "recv"
               /\ UNCHANGED <<agent, current_config, current_mode_type>>
        /\ (turn' = turn + 1 /\ hist'.after_cancelled /\ agent # 0) => \A req \in Requests :
             ( /\ RecvGenerate(req)
               /\ ~from_request_raises(req.config)
               /\ Some(from_request(req.config)) = current_config
               /\ effective_mode_type(req) = current_mode_type )
                => /\ pc' = "running"
                   /\ ncreated' = ncreated /\ agent' = agent
                   /\ worker'[turn'].agent = agent
                   /\ worker'[turn'].st = "scheduled"
                   /\ ~cancel_event' ]_vars

\* The turn that followed a cancelled turn ran on the handle built once and
\* ended as done
C15_Witness ==
    /\ hist.after_cancelled /\ pc = "recv" /\ agent = 1 /\ ncreated = 1
    /\ sent # <<>> /\ Last(sent) = Msg("done", turn, <<"result">>)


\* C16: a protocol error detected between turns, an unparsable payload or an
\* empty prompt with mode generate, sends exactly one error message, starts
\* no worker and no turn, and leaves the handle, the bound config, the bound
\* mode type and the cancellation signal as they were.
C16_ProtocolErrorFrame ==
    [][ (pc = "recv" /\ (Takes("invalid_json") \/ Takes("empty_prompt")))
            => /\ Len(sent') = 1 /\ sent'[1].type = "error" /\ sent'[1].turn = 0
               /\ UNCHANGED <<pc, agent, current_config, current_mode_type,
                              cancel_event, turn, worker, ncreated, ntokens,
                              closed_by>> ]_vars

\* An empty prompt was rejected while a handle was bound and the signal was
\* still set from the turn before
C16_Witness ==
    /\ hist.last = "empty_prompt" /\ pc = "recv"
    /\ agent # 0 /\ cancel_event
    /\ sent = <<Msg("error", 0, <<"Empty prompt">>)>>


C18_GraceExpired ==
    [][ /\ (pc = "grace" /\ ~Finished(turn) /\ pc' = "recv")
            => /\ TerminalsOf(turn) = {}
               /\ sent' = Append(sent, Msg("error", turn, TimeoutText))
               /\ agent' = 0 /\ current_config' = None
               /\ current_mode_type' = "None"
               /\ ~Finished(turn)'
        /\ (Len(sent') = Len(sent) + 1 /\ Last(sent').type = "done")
            => /\ Last(sent').turn = turn
               /\ pc \in {"running", "grace"}
               /\ worker[turn].st = "returned"
        /\ \A t \in Turns : (Finished(t))' => t = turn' /\ pc' \in {"running", "grace"}
        /\ (agent = 0 /\ turn' = turn + 1 /\ pc' = "running")
            => /\ ncreated' = ncreated + 1
               /\ worker'[turn'].agent = ncreated'
               /\ \A t \in 1..turn : worker[t].agent # ncreated' ]_vars

\* The grace period ran out on a worker that is still executing
C18_Witness ==
    /\ timed_out /\ pc = "recv" /\ agent = 0
    /\ worker[turn].st = "running"
    /\ sent # <<>> /\ Last(sent) = Msg("error", turn, TimeoutText)


\* C19: a turn is over, by a terminal message or by the end of the session,
\* at the latest GENERATION_TIMEOUT plus the grace seconds after gen_start:
\* while the listener runs at most GENERATION_TIMEOUT seconds have passed,
\* during the grace at most the grace more, and when either time is up the
\* step that moves the turn on can be taken, whatever the worker did and
\* whatever arrived on the connection.
C19_TurnEndsWithinCeilingPlusGrace ==
    /\ pc = "running" => clock.elapsed <= GENERATION_TIMEOUT
    /\ pc = "grace" => /\ clock.grace <= GraceTimeout
                       /\ clock.elapsed = GENERATION_TIMEOUT + clock.grace
    /\ (pc = "running" /\ remaining <= 0)
            => ENABLED (TimedTimeoutExpires \/ Collect)
    /\ (pc = "grace" /\ clock.grace >= GraceTimeout)
            => ENABLED (TimedGraceExpires \/ GraceCollect)

\* The ceiling and the grace are both used up on a worker that made no
\* callback invocation with content, although a message arrived in the turn
C19_Witness ==
    /\ pc = "grace" /\ clock.elapsed = GENERATION_TIMEOUT + GraceTimeout
    /\ worker[turn].st = "running" /\ worker[turn].token_count = 0
    /\ hist.last = "other"


\* The token messages of turn t that were sent, in order
TokensOf(t) == SelectSeq(sent, LAMBDA m : m.type = "token" /\ m.turn = t)

\* The concatenation of the contents of a sequence of messages
RECURSIVE Concat(_)
Concat(s) == IF s = <<>> THEN <<>> ELSE s[1].content \o Concat(Tail(s))

IsPrefix(a, b) == Len(a) <= Len(b) /\ SubSeq(b, 1, Len(a)) = a

\* C20: when a turn has ended in done, the messages of the turn are its
\* token messages followed by that one done message, and the concatenation
\* of the token contents and the done content are prefix-compatible (one is
\* a prefix of the other).
C20_DoneExtendsTokens ==
    \A i \in DOMAIN sent :
        (sent[i].type = "done" /\ sent[i].turn = turn)
            => /\ \A j \in DOMAIN sent :
                     (sent[j].turn = turn /\ j # i)
                         => (j < i /\ sent[j].type = "token")
               /\ \/ IsPrefix(Concat(TokensOf(turn)), sent[i].content)
                  \/ IsPrefix(sent[i].content, Concat(TokensOf(turn)))


\* C21: classify_mode_type returns draft exactly when the mode is one of
\* rewrite, fix, translate or the context is not empty, and chat otherwise;
\* the prompt has no influence on the result.
C21_ClassifyModeType ==
    call.fn = "classify_mode_type"
        => /\ call.ret \in {"chat", "draft"}
           /\ call.ret = "draft"
                <=> (call.mode \in {"rewrite", "fix", "translate"} \/ call.context # "")
           /\ \A p \in Texts :
                classify_mode_type(call.mode, call.context, p) = call.ret

\* A request of mode generate with a context was classified as draft
C21_Witness ==
    /\ call.fn = "classify_mode_type" /\ call.mode = "generate"
    /\ call.context # "" /\ call.ret = "draft"


\* The literal text a result of build_message begins with when the template
\* of the mode was chosen
TemplateHead(mode) ==
    CASE mode = "rewrite"   -> "Rewrite the following text:\n\n"
      [] mode = "fix"       -> "Fix grammar and spelling in the following text:\n\n"
      [] mode = "translate" -> "Translate the following text. "
      [] OTHER              -> "Context (selected text from user's application):\n\"\"\"\n"

\* C23: with an empty context build_message returns the prompt as it is, for
\* every mode; with a context it returns the text of the template of the
\* mode (rewrite, fix, translate, and the generic one for any other mode),
\* which contains the context.
C23_BuildMessage ==
    call.fn = "build_message"
        => /\ call.context = "" => call.ret = Text(call.prompt)
           /\ call.context # ""
                => /\ call.ret[1] = TemplateHead(call.mode)
                   /\ \E i \in 2..Len(call.ret) : call.ret[i] = call.context

\* The fix mode without a context returned the prompt alone
C23_Witness ==
    /\ call.fn = "build_message" /\ call.mode = "fix" /\ call.context = ""
    /\ call.prompt = "p" /\ call.ret = <<"p">>


\* C22 as claimed: the mode type a started turn binds is the value of the
\* request's mode_type field whenever the request has that field, whatever
\* the value, and the classifier's result only when it has none.
C22_SuppliedModeTypeAlwaysWins ==
    [][ turn' = turn + 1 => \A req \in Requests :
            (RecvGenerate(req) /\ pc' = "running" /\ ncreated' = ncreated + 1)
                => current_mode_type' =
                       IF req.mode_type # "None" THEN req.mode_type
                       ELSE classify_mode_type(req.mode, req.context, req.prompt) ]_vars

\* C22 as amended: the mode type that decides between reuse and rebuild, and
\* that a rebuilt handle is bound to, is the value of the request's mode_type
\* field whenever that value is not empty, and the classifier's result when
\* the field is missing or empty.
C22_NonEmptyModeTypeWins ==
    [][ turn' = turn + 1 => \A req \in Requests :
            (RecvGenerate(req) /\ pc' = "running")
                => LET mt == IF req.mode_type \notin {"None", ""}
                             THEN req.mode_type
                             ELSE classify_mode_type(req.mode, req.context,
                                                     req.prompt)
                   IN  /\ ncreated' = ncreated + 1 => current_mode_type' = mt
                       /\ ncreated' = ncreated => current_mode_type = mt
                       /\ (agent # 0 /\ mt # current_mode_type)
                            => ncreated' = ncreated + 1 ]_vars

\* The second turn runs on a handle built anew for a mode type that only
\* the client's word can give
C22_Witness ==
    /\ pc = "running" /\ turn = 2 /\ ncreated = 2
    /\ current_mode_type = "outline" /\ worker[2].agent = 2


\* The mode of the request needs no prompt: the message built for it is the
\* same whatever the prompt, and is not empty
NeedsNoPrompt(req) ==
    /\ build_message("", req.context, req.mode) # <<>>
    /\ \A p \in Texts :
          build_message(p, req.context, req.mode)
              = build_message("", req.context, req.mode)

\* C24: a request with an empty prompt starts a turn only if its mode needs
\* no prompt, as fix with a context does; one with an empty prompt and the
\* mode generate is answered by one error message and starts no turn.
C24_EmptyPromptOnlyIfModeNeedsNone ==
    [][ \A req \in Requests :
            req.prompt = ""
                => /\ RecvGenerate(req) => NeedsNoPrompt(req)
                   /\ (req.mode = "generate" /\ (RecvGenerate(req) \/ RecvEmptyPrompt(req)))
                        => /\ sent' = <<Msg("error", 0, <<"Empty prompt">>)>>
                           /\ turn' = turn /\ worker' = worker ]_vars


\* C25: a callback invocation made while the cancellation signal is set
\* raises the cancellation failure into the backend call and does nothing
\* else, whatever content it carries: the worker ends with that failure, no
\* token is handed to the connection and the token counter stays as it was.
C25_CallbackRaisesWhenSignalSet ==
    [][ \A t \in Turns, data \in {"", "tok"} :
            (Callback(t, data) /\ cancel_event)
                => /\ worker'[t].st \in {"raised", "gone"}
                   /\ worker'[t].st = "raised"
                        => /\ worker'[t].exc = CancellationError
                           /\ worker'[t].token_count = worker[t].token_count
                   /\ sent' = sent
                   /\ ntokens' = ntokens ]_vars

\* A token went out, the signal was set, and the next invocation raised
C25_Witness ==
    /\ cancel_event /\ pc = "running"
    /\ worker[turn].st = "raised" /\ worker[turn].exc = CancellationError
    /\ worker[turn].token_count = 1
    /\ TokensOf(turn) = <<Msg("token", turn, <<"tok">>)>>


\* The thread of turn t has been started and has not ended
Alive(t) == worker[t].st \in {"scheduled", "running", "sending"}

\* C26: the token counter of a turn's worker is 0 when the worker is
\* started and never decreases while the worker lives; it grows, by one, at
\* exactly the callback invocations with content made while the cancellation
\* signal is unset, each of which schedules the send of one token message
\* with that content and waits for it; an invocation without content changes
\* nothing; and while the send is awaited the worker does nothing else.
C26_TokenCounter ==
    [][ \A t \in Turns :
          /\ (worker[t].st # "scheduled" /\ worker'[t].st = "scheduled")
                => worker'[t].token_count = 0
          /\ (Alive(t) /\ Alive(t)')
                => /\ worker'[t].token_count
                          \in {worker[t].token_count, worker[t].token_count + 1}
                   /\ worker'[t].token_count = worker[t].token_count + 1
                        <=> (~cancel_event /\ Callback(t, "tok"))
          /\ (~cancel_event /\ Callback(t, "tok"))
                => /\ worker'[t].st = "sending" /\ worker'[t].data = "tok"
                   /\ sent' = sent
          /\ (~cancel_event /\ Callback(t, "")) => UNCHANGED <<worker, sent>>
          /\ worker'[t].st = "sending"
                => /\ worker'[t].data # ""
                   /\ worker[t].st = "sending" => worker'[t] = worker[t] ]_vars

\* An invocation without content has left the worker as it was after its one
\* token went out
C26_Witness ==
    /\ ~cancel_event /\ pc = "running" /\ hist.last = "generate"
    /\ worker[turn].st = "running" /\ worker[turn].token_count = 1
    /\ ntokens = 1
    /\ sent = <<Msg("token", turn, <<"tok">>)>>


\* C27: no callback invocation of a worker is processed while a token send
\* of that worker is still scheduled, and a send whose wait ran out is never
\* delivered to the connection afterwards.
C27_SendSettledOrDropped ==
    [][ /\ \A t \in Turns, data \in {"", "tok"} :
              Callback(t, data)
                  => \A i \in DOMAIN outstanding : outstanding[i].turn # t
        /\ outstanding # <<>>
              => ~ /\ outstanding' = Tail(outstanding)
                   /\ sent' = Append(sent, Head(outstanding)) ]_vars


\* The step takes the oldest waiting payload, of the given kind, the way
\* generate() takes one of that kind
TakenAs(kind) ==
    \/ kind \in {"cancel", "new_conversation"} /\ Takes(kind)
    \/ kind = "generate" /\ turn' = turn + 1 /\ hist'.last = "generate"
    \/ kind = "generate" /\ Takes("other")

C29_RequestDuringTurnDiscarded ==
    [][ /\ (pc = "running" /\ Takes("other"))
            => UNCHANGED <<pc, agent, current_config, current_mode_type,
                           cancel_event, turn, worker, sent, ncreated>>
        /\ turn' = turn + 1
            => /\ pc = "recv"
               /\ inbox # <<>> => Head(inbox).at = 0 ]_vars

\* C29 as amended: a generation request that the listener takes during a
\* turn is consumed without a reply and changes neither the binding nor the
\* cancellation signal nor any worker; a worker is started only between
\* turns, when no worker is awaited; and a request sent during a turn that
\* the listener did not take is processed after that turn has resolved, as
\* the request of a later turn.
C29_RequestDuringTurn ==
    [][ /\ (pc = "running" /\ Takes("other"))
            => /\ UNCHANGED <<pc, agent, current_config, current_mode_type,
                              cancel_event, turn, worker, sent, ncreated>>
               /\ inbox # <<>> => inbox' = Tail(inbox)
        /\ turn' = turn + 1
            => /\ pc = "recv" /\ \A t \in Turns : ~Awaited(t)
               /\ (inbox # <<>> /\ Head(inbox).at > 0)
                    => /\ Head(inbox).at <= turn
                       /\ inbox' = Tail(inbox) ]_vars

\* A request was taken and dropped by the listener of the first turn, which
\* then ended as done, and nothing is waiting
C29_Witness ==
    /\ pc = "recv" /\ hist.last = "other" /\ turn = 1 /\ inbox = <<>>
    /\ sent # <<>> /\ Last(sent).type = "done" /\ Last(sent).turn = 1


\* C30: a worker that begins while the cancellation signal is set raises
\* the cancellation failure at once: the backend is not called, so that the
\* worker makes no callback invocation and sends no token, neither then nor
\* later; and when generate() collects a worker that raised the cancellation
\* failure with its token counter at 0, the turn ends with the one message
\* cancelled and no token message of that worker.
C30_CancelBeforeStart ==
    [][ \A t \in Turns :
          /\ (run_agent(t) /\ cancel_event)
                => /\ worker'[t].st \in {"raised", "gone"}
                   /\ worker'[t].st = "raised"
                        => /\ worker'[t].exc = CancellationError
                           /\ worker'[t].token_count = 0
                   /\ sent' = sent /\ ntokens' = ntokens
          /\ worker[t].st \in {"raised", "gone", "joined"}
                => worker'[t].st \notin {"scheduled", "running", "sending"}
          /\ ( /\ Awaited(t) /\ pc' = "recv"
               /\ worker[t].st = "raised" /\ worker[t].exc = CancellationError
               /\ worker[t].token_count = 0 )
                => /\ sent' = Append(sent, Msg("cancelled", t, <<>>))
                   /\ TokensOf(t) = <<>>
                   /\ worker'[t] = Joined ]_vars

\* A cancel arrived before the worker began, and the turn ended as cancelled
\* with nothing else sent
C30_Witness ==
    /\ pc = "recv" /\ hist.last = "cancel" /\ ~hist.cancel_mid /\ ~timed_out
    /\ turn = 1 /\ worker[1] = Joined /\ ntokens = 0
    /\ sent = <<Msg("cancelled", 1, <<>>)>>


\* The step sends the cancelled message
SendsCancelled == Len(sent') = Len(sent) + 1 /\ Last(sent').type = "cancelled"

TokenPending(t) == worker[t].st = "sending"

\* C32: while the cancellation signal is set, the only token message a
\* worker puts on the connection is the one whose signal check had passed
\* before: a token goes out only from a worker that was in the middle of its
\* send, no worker begins another send, and the next callback invocation of
\* the worker, with content or without, raises the cancellation failure and
\* sends nothing.
C32_AtMostOneTokenAfterSignal ==
    [][ cancel_event
            => \A t \in Turns :
                 /\ (Len(sent') = Len(sent) + 1 /\ Last(sent') = Msg("token", t, <<"tok">>))
                        => /\ TokenPending(t)
                           /\ ~TokenPending(t)'
                 /\ TokenPending(t)' => (TokenPending(t) /\ worker'[t] = worker[t])
                 /\ \A data \in {"", "tok"} :
                        Callback(t, data)
                            => /\ worker'[t].st \in {"raised", "gone"}
                               /\ worker'[t].st = "raised"
                                    => worker'[t].exc = CancellationError
                               /\ worker'[t].token_count = 0
                                    \/ worker'[t].token_count = worker[t].token_count
                               /\ sent' = sent ]_vars

\* The cancel was taken while the send of the worker's token was pending;
\* that token went out and the next invocation raised
C32_Witness ==
    /\ pc = "running" /\ cancel_event /\ hist.cancel_mid
    /\ worker[turn].st = "raised" /\ worker[turn].exc = CancellationError
    /\ worker[turn].token_count = 1
    /\ sent = <<Msg("token", turn, <<"tok">>)>>


\* C33: once the expiry of the ceiling has set the cancellation signal, the
\* signal stays set for as long as the worker of that turn has not ended,
\* whatever happens on the connection, the start of the next turn included,
\* so that every later callback invocation of that worker finds it set.
C33_TimeoutSignalStaysSet ==
    [][ (timed_out /\ cancel_event /\ Alive(turn) /\ Alive(turn)')
            => cancel_event' ]_vars


\* C34: the error message with the timeout text is sent, and the binding
\* discarded with it, only for a turn whose ceiling has expired; a worker
\* that has raised a failure of the backend never makes the turn end that
\* way.
C34_TimeoutPathOnlyOnExpiry ==
    [][ /\ (Len(sent') = Len(sent) + 1 /\ Last(sent') = Msg("error", turn, TimeoutText))
            => timed_out
        /\ ( /\ Awaited(turn) /\ pc' = "recv" /\ worker[turn].st = "raised"
             /\ worker[turn].exc \in BackendFailures )
            => /\ Last(sent') # Msg("error", turn, TimeoutText)
               /\ UNCHANGED <<agent, current_config, current_mode_type>> ]_vars


\* The workers, other than that of turn t, whose thread may still execute
\* the handle it was started on
OthersOn(t) == { u \in Turns \ {t} : Alive(u) /\ worker[u].agent = worker[t].agent }

\* C35: create_agent is called, and the bound handle replaced by another,
\* only in the step that accepts a request, which starts that turn's worker
\* on the bound handle, and only when no worker of the connection is
\* executing; so no handle is executed by two workers at once, and a worker
\* is never started on a handle a worker started earlier may still execute.
C35_HandleNeverShared ==
    [][ /\ (ncreated' # ncreated \/ agent' \notin {agent, 0})
            => /\ pc = "recv" /\ turn' = turn + 1
               /\ Executing = {}
               /\ pc' = "running" => (worker'[turn'].st = "scheduled"
                                      /\ worker'[turn'].agent = agent')
        /\ \A t \in Turns :
             /\ (t \in Executing)' => (Executing \cap OthersOn(t))' = {}
             /\ (worker[t].st # "scheduled" /\ worker'[t].st = "scheduled")
                    => OthersOn(t)' = {} ]_vars


\* The handle, the bound config and the bound mode type are all absent
Unbound == agent = 0 /\ current_config = None /\ current_mode_type = "None"

\* The handle, the bound config and the bound mode type are all present
Bound == agent # 0 /\ current_config # None /\ current_mode_type # "None"

\* C36: whenever generate() is at the receive between turns, the handle,
\* the bound config and the bound mode type are all absent or all present;
\* a handle becomes bound only when create_agent has built it for an accepted
\* request, with the ModelConfig and the mode type of that request, which
\* become the bound ones in the same step; and while the same handle stays
\* bound, the bound config and mode type do not change.
C36_BindingConsistent ==
    [][ /\ pc' = "recv" => (Unbound' \/ Bound')
        /\ (agent' # 0 /\ agent' # agent)
            => /\ turn' = turn + 1 /\ ncreated' = ncreated + 1
               /\ agent' = ncreated'
               /\ \E req \in Requests :
                    /\ RecvGenerate(req)
                    /\ ~create_agent_raises(from_request(req.config))
                    /\ current_config' = Some(from_request(req.config))
                    /\ current_mode_type' = effective_mode_type(req)
        /\ (agent' # 0 /\ agent' = agent)
            => UNCHANGED <<current_config, current_mode_type>> ]_vars

\* After two turns generate() waits with the handle bound that was built
\* for the second request, with its config and the mode type it named
C36_Witness ==
    /\ pc = "recv" /\ turn = 2 /\ agent = 2 /\ ncreated = 2
    /\ current_config = Some(ModelConfig("bedrock", "", "", ""))
    /\ current_mode_type = "outline"
    /\ sent # <<>> /\ Last(sent).type = "done"


\* The locals of generate() on connection c
View(c) == IF conn = c THEN Local ELSE peer

\* The binding, the cancellation signal and the messages sent on
\* connection c
Owned(c) ==
    [agent |-> View(c).agent, current_config |-> View(c).current_config,
     current_mode_type |-> View(c).current_mode_type,
     cancel_event |-> View(c).cancel_event, sent |-> View(c).sent]

\* The handles connection c has bound or has a worker started on
Handles(c) ==
    ({View(c).agent} \cup { View(c).worker[t].agent : t \in Turns }) \ {0}

\* C37: the two connections never hold the same handle, bound or in the
\* hands of a worker, and a step of one connection, a cancel, a
\* new_conversation, the expiry of the ceiling or of the grace, a disconnect
\* or any other, leaves the binding, the cancellation signal and the messages
\* sent of the other connection as they were.
C37_ConnectionsIsolated ==
    [][ /\ Handles(1)' \cap Handles(2)' = {}
        /\ \A c \in Connections :
              (conn' # conn \/ conn # c) => Owned(c)' = Owned(c) ]_vars

\* The turn of one connection has ended as cancelled after a cancel, while
\* the turn of the other is running on its own handle with its signal unset
C37_Witness ==
    \E c \in Connections :
        /\ View(c).pc = "recv" /\ View(c).cancel_event
        /\ View(c).hist.last = "cancel"
        /\ View(c).sent = <<Msg("cancelled", 1, <<>>)>>
        /\ View(Other(c)).pc = "running" /\ ~View(Other(c)).cancel_event
        /\ View(Other(c)).worker[1].st = "running"
        /\ View(c).agent # 0 /\ View(Other(c)).agent # 0


\* The rules of _friendly_error in their order: does rule i match the text
\* whose keywords are msg?
RuleMatches(i, msg) ==
    CASE i = 1 -> \E r, l \in msg : lower(r) = "rate" /\ lower(l) = "limit"
      [] i = 2 -> \E w \in msg : lower(w) \in {"authentication", "credentials"}
      [] i = 3 -> \E w \in msg : lower(w) = "timeout"
      [] i = 4 -> "ExpiredToken" \in msg

\* The message of rule i
RuleText(i) ==
    CASE i = 1 -> "Rate limit exceeded. Please wait a moment and try again."
      [] i = 2 -> "Authentication error. Check your AWS credentials."
      [] i = 3 -> "Request timed out. The model may be overloaded - try again."
      [] i = 4 -> "AWS credentials expired. Run tokenmaster to refresh."

Rules == 1..4

\* C38: _friendly_error returns the message of the first rule that matches
\* the text of the failure, in the order rate limit (the text contains rate
\* and limit), authentication or credentials, timeout, expired token, the
\* first three whatever the case of the letters, and for a text no rule
\* matches the kind of the failure, a colon and the text; so a text several
\* rules match gets the message of the earliest of them, and every failure
\* gets exactly one message.
C38_FriendlyErrorFirstRule ==
    call.fn = "_friendly_error"
        => /\ \A i \in Rules :
                (RuleMatches(i, call.msg)
                    /\ \A j \in Rules : j < i => ~RuleMatches(j, call.msg))
                  => call.ret = <<RuleText(i)>>
           /\ (\A i \in Rules : ~RuleMatches(i, call.msg))
                  => call.ret = <<call.etype, ": ", call.msg>>

\* A text about a rate limit that also mentions a timeout and an expired
\* token got the message of the rate limit
C38_Witness ==
    /\ call.fn = "_friendly_error"
    /\ call.msg = {"rate", "Limit", "Timeout", "ExpiredToken"}
    /\ call.ret = <<"Rate limit exceeded. Please wait a moment and try again.">>


\* A response that reports the generated text: type "done" of invocations,
\* the key "result" of invoke
ShotDone(r) ==
    \/ "type" \in DOMAIN r /\ r.type = "done"
    \/ "result" \in DOMAIN r

\* A response that reports an error: type "error" of invocations, the key
\* "error" of invoke
ShotError(r) ==
    \/ "type" \in DOMAIN r /\ r.type = "error"
    \/ "error" \in DOMAIN r

====
